---- MODULE Spec2Model ----
(***************************************************************************)
(* A model of simple-weather-app:                                          *)
(*  - the storage layer (src/weather_app/db/database.py): the settings     *)
(*    table and the cities catalogue kept in SQLite, and the UI handler    *)
(*    that toggles a favourite;                                            *)
(*  - the weather client (src/weather_app/api/weather_api.py): the two     *)
(*    fetch operations as functions of what the provider answers;          *)
(*  - the fetch orchestration of the home page                             *)
(*    (src/weather_app/ui/pages/home_page/home_page.py): update_weather,   *)
(*    its worker threads and the queued update of the window.              *)
(*                                                                         *)
(* Python str values are sequences of Unicode code points, so that         *)
(* str.upper(), SQLite's LIKE and SQLite's BINARY string comparison are    *)
(* computed on the text itself.  Python None (and SQL NULL, which sqlite3  *)
(* hands back as None) is the value None below.                            *)
(***************************************************************************)
EXTENDS Integers, Sequences, FiniteSets, TLC

VARIABLES settings,   \* table settings: a set of rows
          seq,        \* sqlite_sequence entry of table settings (AUTOINCREMENT)
          hist,       \* the last calls made on the settings store, oldest first
          everSet,    \* the setting names set_setting was ever called with
          cities,     \* table cities: a set of rows
          ret,        \* the last call made on the catalogue, with what it returned
          prev,       \* the catalogue call made before that one
          fetch,      \* the last call made on the weather client, with its outcome
          migrate,    \* the run of migrate.main: where it is, the ids left of its list
          api_key,    \* WeatherAPI.api_key
          stack,      \* the widget stack_widget shows
          labels,     \* the labels of the current-weather screen
          forecast_cards,  \* the three forecast cards
          threads,    \* the worker threads started, in the order of their requests
          queue,      \* the queued update_weather_ui invocations, oldest first
          log         \* what happened, in order

vars == <<settings, seq, hist, everSet, cities, ret, prev, fetch, migrate,
          api_key, stack, labels, forecast_cards, threads, queue, log>>
settingsVars == <<settings, seq, hist, everSet>>
catalogVars == <<cities, ret, prev>>
clientVars == <<fetch, migrate>>
fetchVars == <<api_key, stack, labels, forecast_cards, threads, queue, log>>

(***************************************************************************)
(* Text                                                                    *)
(***************************************************************************)

\* Python's None; also SQL NULL.  -1 is no code point, so no str equals it.
None == <<-1>>

\* migrate.main is not run.
NoMigrate == [pc |-> "none", cities |-> {}, failed |-> {}]

\* No call on the weather client yet, and no home page built.
InitNoClient ==
    /\ fetch = [op |-> "none"]
    /\ migrate = NoMigrate
    /\ api_key = None
    /\ stack = "none"
    /\ labels = <<>>
    /\ forecast_cards = <<>>
    /\ threads = <<>>
    /\ queue = <<>>
    /\ log = <<>>

\* Python truthiness of an Optional[str]: None and "" are falsy.
Truthy(s) == s # None /\ s # <<>>

\* str.upper() on one code point: a-z and the Cyrillic letters U+0430..U+044F.
\* Every other code point used here (A-Z, U+0410..U+042F, digits, % and _)
\* is its own upper case.
UpperChar(c) ==
    IF c >= 97 /\ c <= 122 THEN c - 32
    ELSE IF c >= 1072 /\ c <= 1103 THEN c - 32
    ELSE c

\* Database.__to_ascii_equivalent: char.encode().decode('utf-8').upper().
\* Encoding to UTF-8 and decoding again gives the same text back; what the
\* function does is upper-case it.
ToAsciiEquivalent(char) == [i \in 1..Len(char) |-> UpperChar(char[i])]

\* All strings over alphabet A of length at most n.
RECURSIVE StringsUpTo(_, _)
StringsUpTo(A, n) ==
    IF n = 0 THEN {<<>>}
    ELSE LET shorter == StringsUpTo(A, n - 1)
         IN  shorter \cup {<<c>> \o s : c \in A, s \in {t \in shorter : Len(t) = n - 1}}

(***************************************************************************)
(* Settings store                                                          *)
(***************************************************************************)

\* The keys the application uses.
SettingNames == {"OPEN_WEATHER_MAP_API_KEY", "LAST_SITY_ID", "THEME"}

\* The values written in the model: "k1", "k2" (text; a TEXT column keeps a
\* str as it is).
SettingValues == {<<107, 49>>, <<107, 50>>}

\* How many set_setting calls a behaviour makes (seq grows with each).
MaxSetCalls == 4

\* The rows of settings whose setting_name is name.
SettingRows(tbl, name) == {r \in tbl : r.setting_name = name}

\* A defective upsert: a plain INSERT, without the ON CONFLICT clause and
\* without the UNIQUE constraint to stop it.
SetSettingRowsNoConflict(tbl, rowid, name, value) ==
    tbl \cup {[id |-> rowid, setting_name |-> name, setting_value |-> value]}

\* A defective upsert: ON CONFLICT DO NOTHING, the first value is kept.
SetSettingRowsKeepFirst(tbl, rowid, name, value) ==
    IF SettingRows(tbl, name) # {}
    THEN tbl
    ELSE tbl \cup {[id |-> rowid, setting_name |-> name, setting_value |-> value]}

\* INSERT INTO settings (setting_name, setting_value) VALUES (?, ?)
\* ON CONFLICT(setting_name) DO UPDATE SET setting_value=?
\* The table after the statement; rowid is the id AUTOINCREMENT hands out.
SetSettingRows(tbl, rowid, name, value) ==
    IF SettingRows(tbl, name) # {}
    THEN {IF r.setting_name = name THEN [r EXCEPT !.setting_value = value] ELSE r
              : r \in tbl}
    ELSE tbl \cup {[id |-> rowid, setting_name |-> name, setting_value |-> value]}

\* A defective lookup: the miss is answered with the empty string.
GetSettingValueEmptyOnMiss(tbl, name) ==
    LET result == SettingRows(tbl, name)
    IN  IF result # {}
        THEN (CHOOSE r \in result : \A o \in result : r.id <= o.id).setting_value
        ELSE <<>>

\* SELECT setting_value FROM settings WHERE setting_name = ?; fetchone();
\* result[0] if result else None.
GetSettingValue(tbl, name) ==
    LET result == SettingRows(tbl, name)
    IN  IF result # {}
        THEN (CHOOSE r \in result : \A o \in result : r.id <= o.id).setting_value
        ELSE None

\* The last three calls are kept.
Remember(h, call) ==
    IF Len(h) < 3 THEN Append(h, call) ELSE Append(Tail(h), call)

\* Database.set_setting(name, value).  AUTOINCREMENT draws a new rowid for
\* the statement before the conflict is found, and sqlite_sequence keeps it,
\* so seq grows also when the row is updated in place.
SetSetting(name, value) ==
    /\ seq < MaxSetCalls
    /\ settings' = SetSettingRows(settings, seq + 1, name, value)
    /\ seq' = seq + 1
    /\ everSet' = everSet \cup {name}
    /\ hist' = Remember(hist, [op |-> "set_setting", name |-> name,
                               value |-> value, result |-> None])
    /\ UNCHANGED <<catalogVars, clientVars, fetchVars>>

\* Database.get_setting(name).
GetSetting(name) ==
    /\ hist' = Remember(hist, [op |-> "get_setting", name |-> name,
                               value |-> None,
                               result |-> GetSettingValue(settings, name)])
    /\ UNCHANGED <<settings, seq, everSet>>
    /\ UNCHANGED <<catalogVars, clientVars, fetchVars>>

InitSettings ==
    /\ settings = {}
    /\ seq = 0
    /\ hist = <<>>
    /\ everSet = {}

(***************************************************************************)
(* City catalogue                                                          *)
(***************************************************************************)

\* Country codes: "RU", "DE", "FR", "US".
RU == <<82, 85>>
DE == <<68, 69>>
FR == <<70, 82>>
US == <<85, 83>>

\* The home country of the ORDER BY clause: the literal 'RU'.
HomeCountry == RU

\* The characters of names and queries: A, a, U+041C, U+043C (the Cyrillic
\* capital and small letter em), and LIKE's two wildcards % and _.
Alphabet == {65, 97, 1052, 1084, 37, 95}

\* How SQLite's LIKE folds one character before comparing: A-Z to a-z and
\* nothing else (no ICU extension is loaded).
LikeFold(c) == IF c >= 65 /\ c <= 90 THEN c + 32 ELSE c

\* SQLite's "str LIKE pattern": % matches any run of characters, _ matches
\* exactly one, any other character matches itself, ASCII letters without
\* regard to case.  No ESCAPE character is given in the query.
RECURSIVE Like(_, _)
Like(pattern, str) ==
    IF pattern = <<>> THEN str = <<>>
    ELSE IF Head(pattern) = 37
    THEN \/ Like(Tail(pattern), str)
         \/ str # <<>> /\ Like(pattern, Tail(str))
    ELSE /\ str # <<>>
         /\ Head(pattern) = 95 \/ LikeFold(Head(pattern)) = LikeFold(Head(str))
         /\ Like(Tail(pattern), Tail(str))

\* f'%{...}%'
Percent(s) == <<37>> \o s \o <<37>>

\* ' AND (ru_name COLLATE NOCASE LIKE ? OR ru_name COLLATE NOCASE LIKE ?)'
\* with the parameters '%' + to_ascii_equivalent(ru_name) + '%' and
\* '%' + ru_name + '%'.
NameFilter(row, ru_name) ==
    \/ Like(Percent(ToAsciiEquivalent(ru_name)), row.ru_name)
    \/ Like(Percent(ru_name), row.ru_name)

\* ' AND country = ?': equality of the texts.
CountryFilter(row, country) == row.country = country

\* A defective query: the filters joined by OR.
WhereEitherFilter(row, country, ru_name) ==
    /\ row.ru_name # None
    /\ \/ Truthy(country) /\ CountryFilter(row, country)
       \/ Truthy(ru_name) /\ NameFilter(row, ru_name)
       \/ ~Truthy(country) /\ ~Truthy(ru_name)

\* A defective query: the clause "ru_name IS NOT NULL" left out.  A NULL
\* ru_name matches no LIKE, so it shows when no name is asked for.
WhereWithNull(row, country, ru_name) ==
    /\ Truthy(country) => CountryFilter(row, country)
    /\ Truthy(ru_name) => row.ru_name # None /\ NameFilter(row, ru_name)

\* The WHERE clause get_cities builds: "ru_name IS NOT NULL", then one
\* AND-ed condition for each argument that is truthy.
Where(row, country, ru_name) ==
    /\ row.ru_name # None
    /\ Truthy(country) => CountryFilter(row, country)
    /\ Truthy(ru_name) => NameFilter(row, ru_name)

\* SQLite's BINARY collation on text: the order of the code points, a proper
\* prefix first.
RECURSIVE StrLess(_, _)
StrLess(a, b) ==
    IF b = <<>> THEN FALSE
    ELSE IF a = <<>> THEN TRUE
    ELSE IF Head(a) # Head(b) THEN Head(a) < Head(b)
    ELSE StrLess(Tail(a), Tail(b))

\* CASE WHEN country = 'RU' THEN 0 ELSE 1 END
HomeRank(row) == IF row.country = HomeCountry THEN 0 ELSE 1

\* A defective ORDER BY: the CASE term left out.
PrecedesNoHome(r, o) ==
    IF r.favorite # o.favorite THEN r.favorite > o.favorite
    ELSE IF r.country # o.country THEN StrLess(r.country, o.country)
    ELSE r.id < o.id

\* ORDER BY favorite DESC, CASE ... END, country: row r is placed before
\* row o.  Rows equal in all three keep the order of the table scan, which
\* is the order of the primary key.
Precedes(r, o) ==
    IF r.favorite # o.favorite THEN r.favorite > o.favorite
    ELSE IF HomeRank(r) # HomeRank(o) THEN HomeRank(r) < HomeRank(o)
    ELSE IF r.country # o.country THEN StrLess(r.country, o.country)
    ELSE r.id < o.id

\* The rows of a set in the order of Precedes.
RECURSIVE OrderBy(_)
OrderBy(rows) ==
    IF rows = {} THEN <<>>
    ELSE LET first == CHOOSE r \in rows : \A o \in rows \ {r} : Precedes(r, o)
         IN  <<first>> \o OrderBy(rows \ {first})

\* The columns of table cities (create_tables).
Columns == {"id", "country", "name", "ru_name", "lat", "lon", "favorite"}

\* The columns update_city_list asks for.
ListFields == <<"id", "ru_name", "lat", "lon", "country", "favorite">>

\* "SELECT " + ', '.join(fields), or "SELECT *" when fields is None or
\* empty (written <<>> here): the row with the columns asked for.
Select(row, fields) ==
    IF fields # <<>>
    THEN [c \in {fields[i] : i \in 1..Len(fields)} |-> row[c]]
    ELSE row

\* Database.get_cities(country, ru_name, fields): the list fetchall() gives.
GetCitiesRows(tbl, country, ru_name, fields) ==
    LET found == OrderBy({r \in tbl : Where(r, country, ru_name)})
    IN  [i \in 1..Len(found) |-> Select(found[i], fields)]

\* Database.is_city_favorite(city_id): SELECT favorite FROM cities WHERE
\* id = ?; bool(result and result[0] == 1).
IsCityFavoriteValue(tbl, city_id) ==
    LET result == {r \in tbl : r.id = city_id}
    IN  result # {} /\ (CHOOSE r \in result : TRUE).favorite = 1

\* sqlite3 binds a Python bool as the integer 1 or 0.
BoolToInt(b) == IF b THEN 1 ELSE 0

\* A defective update: the WHERE clause left out.
UpdateCityFavoriteAllRows(tbl, city_id, is_favorite) ==
    {[r EXCEPT !.favorite = BoolToInt(is_favorite)] : r \in tbl}

\* A defective update: the flag is only ever set.
UpdateCityFavoriteSetOnly(tbl, city_id, is_favorite) ==
    {IF r.id = city_id /\ is_favorite THEN [r EXCEPT !.favorite = 1] ELSE r
         : r \in tbl}

\* A defective update: INSERT OR REPLACE, which makes the row it misses.
UpdateCityFavoriteUpsert(tbl, city_id, is_favorite) ==
    IF {r \in tbl : r.id = city_id} # {}
    THEN {IF r.id = city_id THEN [r EXCEPT !.favorite = BoolToInt(is_favorite)]
                            ELSE r : r \in tbl}
    ELSE tbl \cup {[id |-> city_id, country |-> None, name |-> None,
                    ru_name |-> None, lat |-> 0, lon |-> 0,
                    favorite |-> BoolToInt(is_favorite)]}

\* Database.update_city_favorite(city_id, is_favorite):
\* UPDATE cities SET favorite = ? WHERE id = ?; the table after it.
UpdateCityFavoriteRows(tbl, city_id, is_favorite) ==
    {IF r.id = city_id THEN [r EXCEPT !.favorite = BoolToInt(is_favorite)]
                       ELSE r : r \in tbl}

\* The catalogue as imported: every ru_name NULL, every favorite 0 (the
\* column default).  name is the English name ("M", "B", "P", "K", "H").
Seed ==
    { [id |-> 1, country |-> RU, name |-> <<77>>, ru_name |-> None,
       lat |-> 55, lon |-> 37, favorite |-> 0],
      [id |-> 2, country |-> DE, name |-> <<66>>, ru_name |-> None,
       lat |-> 52, lon |-> 13, favorite |-> 0],
      [id |-> 3, country |-> FR, name |-> <<80>>, ru_name |-> None,
       lat |-> 48, lon |-> 2, favorite |-> 0],
      [id |-> 4, country |-> RU, name |-> <<75>>, ru_name |-> None,
       lat |-> 55, lon |-> 49, favorite |-> 0],
      [id |-> 5, country |-> DE, name |-> <<72>>, ru_name |-> None,
       lat |-> 53, lon |-> 10, favorite |-> 0] }

\* migrate.update_city_ru_name: UPDATE cities SET ru_name = ? WHERE id = ?
\* with to_ascii_equivalent(ru_name) as the value.
UpdateCityRuName(tbl, city_id, ru_name) ==
    {IF r.id = city_id THEN [r EXCEPT !.ru_name = ToAsciiEquivalent(ru_name)]
                       ELSE r : r \in tbl}

\* The (id, name) pairs of the backfill done so far; the names are as the
\* provider gave them: city 1 Cyrillic capital em, small em; city 2 Latin a,
\* Cyrillic capital em; city 3 "A"; city 5 Cyrillic small em, Latin a.
\* City 4 is not backfilled yet.
Backfilled ==
    << <<1, <<1052, 1084>>>>, <<2, <<97, 1052>>>>, <<3, <<65>>>>,
       <<5, <<1084, 97>>>> >>

\* The catalogue after the backfill calls of a list of (id, name) pairs.
RECURSIVE Backfill(_, _)
Backfill(tbl, pairs) ==
    IF pairs = <<>> THEN tbl
    ELSE Backfill(UpdateCityRuName(tbl, Head(pairs)[1], Head(pairs)[2]), Tail(pairs))

\* The ids calls are made with: those of the catalogue and one that is not.
CityIdInputs == {r.id : r \in Seed} \cup {Cardinality(Seed) + 1}

\* The name queries typed into the search box of the city list: none (the
\* default ""), "a", and the Cyrillic small em.
ListQueries == {<<>>, <<97>>, <<1084>>}

\* The fields arguments: none, and the list the city list asks for.
FieldsInputs == {<<>>, ListFields}

\* A catalogue call as prev keeps it: the call without what it returned.
Call(r) == [op |-> r.op, city_id |-> r.city_id, is_favorite |-> r.is_favorite]

\* Database.get_cities(country, ru_name, fields).
GetCities(country, ru_name, fields) ==
    /\ ret' = [op |-> "get_cities", city_id |-> 0, is_favorite |-> FALSE,
               country |-> country, ru_name |-> ru_name, fields |-> fields,
               value |-> GetCitiesRows(cities, country, ru_name, fields),
               before |-> cities]
    /\ prev' = Call(ret)
    /\ UNCHANGED cities
    /\ UNCHANGED <<settingsVars, clientVars, fetchVars>>

\* Database.is_city_favorite(city_id).
IsCityFavorite(city_id) ==
    /\ ret' = [op |-> "is_city_favorite", city_id |-> city_id,
               is_favorite |-> FALSE,
               value |-> IsCityFavoriteValue(cities, city_id),
               before |-> cities]
    /\ prev' = Call(ret)
    /\ UNCHANGED cities
    /\ UNCHANGED <<settingsVars, clientVars, fetchVars>>

\* Database.update_city_favorite(city_id, is_favorite).
UpdateCityFavorite(city_id, is_favorite) ==
    /\ cities' = UpdateCityFavoriteRows(cities, city_id, is_favorite)
    /\ ret' = [op |-> "update_city_favorite", city_id |-> city_id,
               is_favorite |-> is_favorite, value |-> None,
               before |-> cities]
    /\ prev' = Call(ret)
    /\ UNCHANGED <<settingsVars, clientVars, fetchVars>>

\* HomePage.toggle_favorite(city_id, heart_icon): reads the flag, writes
\* its negation, and shows the heart for new_favorite_state.
ToggleFavorite(city_id) ==
    LET is_favorite == IsCityFavoriteValue(cities, city_id)
        new_favorite_state == ~is_favorite
    IN  /\ cities' = UpdateCityFavoriteRows(cities, city_id, ~is_favorite)
        /\ ret' = [op |-> "toggle_favorite", city_id |-> city_id,
                   is_favorite |-> ~is_favorite, value |-> new_favorite_state,
                   before |-> cities]
        /\ prev' = Call(ret)
        /\ UNCHANGED <<settingsVars, clientVars, fetchVars>>

NoCall == [op |-> "none", city_id |-> 0, is_favorite |-> FALSE]

InitCatalog ==
    /\ cities = Backfill(Seed, Backfilled)
    /\ ret = NoCall
    /\ prev = NoCall

(***************************************************************************)
(* Specifications                                                          *)
(***************************************************************************)

\* The settings store under any sequence of calls.
InitSettingsStore == InitSettings /\ InitCatalog /\ InitNoClient

NextSettings ==
    \/ \E name \in SettingNames, value \in SettingValues : SetSetting(name, value)
    \/ \E name \in SettingNames : GetSetting(name)

SpecSettings == InitSettingsStore /\ [][NextSettings]_vars

\* The catalogue under any sequence of calls.
NextCatalog ==
    \/ \E country \in {None, DE}, ru_name \in ListQueries, fields \in FieldsInputs :
           GetCities(country, ru_name, fields)
    \/ \E city_id \in CityIdInputs : IsCityFavorite(city_id)
    \/ \E city_id \in CityIdInputs, is_favorite \in BOOLEAN :
           UpdateCityFavorite(city_id, is_favorite)
    \/ \E city_id \in CityIdInputs : ToggleFavorite(city_id)

SpecCatalog == InitSettingsStore /\ [][NextCatalog]_vars

\* get_cities as a function of the catalogue and its arguments: the
\* catalogue is any state of the backfill, and one call is made.

\* The longest name the provider gives, and the longest name query.
MaxNameLen == 2
MaxQueryLen == 2

\* The names the provider gives: not empty (migrate.main stores a name only
\* if it is truthy), over Latin a and the Cyrillic small em.
ProviderNames == StringsUpTo({97, 1084}, MaxNameLen) \ {<<>>}

\* What a row's backfill may have been: nothing yet, or one of the names.
BackfillChoices == {<<>>} \cup {<<n>> : n \in ProviderNames}

\* Cities 1 (RU) and 2 (DE) are backfilled with any name or not at all,
\* city 5 (DE) with "ma" (Cyrillic em, Latin a) or not at all.
SearchCatalogs ==
    { Backfill({r \in Seed : r.id \in {1, 2, 5}},
               [i \in 1..Len(b1) |-> <<1, b1[i]>>]
                   \o [i \in 1..Len(b2) |-> <<2, b2[i]>>]
                   \o [i \in 1..Len(b5) |-> <<5, b5[i]>>])
        : b1 \in BackfillChoices, b2 \in BackfillChoices,
          b5 \in {<<>>, <<(<<1084, 97>>)>>} }

\* The name queries: None, and every string up to the length.
Queries == {None} \cup StringsUpTo(Alphabet, MaxQueryLen)

\* The country arguments: None, "", and codes in and not in the catalogue.
CountryInputs == {None, <<>>, RU, DE, US}

InitSearch ==
    /\ InitSettings
    /\ InitNoClient
    /\ cities \in SearchCatalogs
    /\ ret = NoCall
    /\ prev = NoCall

\* The one get_cities call.
SearchCities ==
    /\ ret = NoCall
    /\ \E country \in CountryInputs, ru_name \in Queries, fields \in FieldsInputs :
           GetCities(country, ru_name, fields)

NextSearch == SearchCities

SpecSearch == InitSearch /\ [][NextSearch]_vars

(***************************************************************************)
(* Weather client: what the provider and the icon CDN answer               *)
(***************************************************************************)

\* What requests.get comes back with: a response with a status code and a
\* JSON body (json), or a requests.RequestException raised by the transport
\* (connection refused, timeout).
Exception == [kind |-> "exception"]
Response(status_code, json) ==
    [kind |-> "response", status_code |-> status_code, json |-> json]

\* The bodies of the answers of the icon CDN (icon_response.content): the
\* bytes of a PNG image, or bytes that are no image (an empty body, an
\* HTML page).
Png == "png"
NoImage == "no image"

\* An answer of the icon CDN: a status code and a body.
IconResponse(status_code, content) ==
    [kind |-> "response", status_code |-> status_code, content |-> content]

\* A defective check: only the server errors raise.
RaisesForStatusServerOnly(reply) == reply.status_code >= 500 /\ reply.status_code < 600

\* response.raise_for_status(): requests raises HTTPError for the client
\* errors 400..499 and the server errors 500..599, and for no other status.
RaisesForStatus(reply) == reply.status_code >= 400 /\ reply.status_code < 600

\* requests.get(url, ...) followed by raise_for_status(): a
\* requests.RequestException is raised (TRUE) or the response is at hand.
\* A url without a scheme, as "" is, raises MissingSchema before anything
\* is sent.
GetRaises(url, reply) ==
    \/ url = <<>>
    \/ reply.kind = "exception"
    \/ RaisesForStatus(reply)

\* The request was put on the wire.
Sent(url) == url # <<>>

\* f"https://openweathermap.org/img/wn/{icon}@2x.png"
IconUrl(icon) == <<"https://openweathermap.org/img/wn/", icon, "@2x.png">>

\* self.base_url and self.forecast_url.
BaseUrl == <<"https://api.openweathermap.org/data/2.5/weather">>
ForecastUrl == <<"https://api.openweathermap.org/data/2.5/forecast">>

\* requests leaves a parameter whose value is None out of the query string.
QueryString(params) == [k \in {n \in DOMAIN params : params[n] # None} |-> params[k]]

\* self.default_params.copy() with params["id"] = city_id, as sent: units
\* "metric", lang "ru", appid the key.  city_id is text or None.
Params(key, city_id) ==
    QueryString([units |-> <<109, 101, 116, 114, 105, 99>>, lang |-> <<114, 117>>,
                 appid |-> key, id |-> city_id])

\* A request put on the wire: the url and its query string.
NoParams == [k \in {} |-> None]
Request(url, params) == [url |-> url, params |-> params]


\* pixmap = QPixmap(); pixmap.loadFromData(icon_response.content): the
\* image of that url when the body is one; otherwise loadFromData returns
\* False, which the code does not look at, and the pixmap stays the null
\* pixmap QPixmap().
Pixmap(url, reply) ==
    IF reply.content = Png THEN [image |-> url] ELSE [image |-> <<>>]

\* What an operation of the client ends with.
Return(value, requests) ==
    [status |-> "return", value |-> value, requests |-> requests]
\* raise RuntimeError(...) of the "except requests.RequestException" clause.
RaiseRequestError(requests) ==
    [status |-> "raise", type |-> "RuntimeError", clause |-> "RequestException",
     key |-> "", requests |-> requests]
\* raise RuntimeError(...) of the "except KeyError" clause; the message
\* ends with the key.
RaiseDataError(key, requests) ==
    [status |-> "raise", type |-> "RuntimeError", clause |-> "KeyError",
     key |-> key, requests |-> requests]
\* An IndexError, which no except clause catches.
RaiseIndexError(requests) ==
    [status |-> "raise", type |-> "IndexError", clause |-> "",
     key |-> "", requests |-> requests]

(***************************************************************************)
(* Weather client: dates and their text                                    *)
(***************************************************************************)

\* The decimal digits of n, at least width of them (zero padded).
RECURSIVE Decimal(_, _)
Decimal(n, width) ==
    IF n < 10 /\ width <= 1 THEN <<48 + n>>
    ELSE Decimal(n \div 10, width - 1) \o <<48 + (n % 10)>>

IsLeap(year) == (year % 4 = 0 /\ year % 100 # 0) \/ year % 400 = 0

DaysInMonth(year, month) ==
    IF month = 2 THEN (IF IsLeap(year) THEN 29 ELSE 28)
    ELSE IF month \in {4, 6, 9, 11} THEN 30
    ELSE 31

\* date + timedelta(days=days), days >= 0.
RECURSIVE DatePlus(_, _)
DatePlus(date, days) ==
    IF days = 0 THEN date
    ELSE DatePlus(
             IF date.day < DaysInMonth(date.year, date.month)
             THEN [date EXCEPT !.day = date.day + 1]
             ELSE IF date.month < 12
             THEN [date EXCEPT !.month = date.month + 1, !.day = 1]
             ELSE [year |-> date.year + 1, month |-> 1, day |-> 1],
             days - 1)

\* date.strftime("%Y-%m-%d")
Strftime(date) ==
    Decimal(date.year, 4) \o <<45>> \o Decimal(date.month, 2) \o <<45>>
        \o Decimal(date.day, 2)

\* A defective list of dates: range(0, 3), which starts today.
TargetDatesFromToday(current_date) ==
    [i \in 1..3 |-> Strftime(DatePlus(current_date, i - 1))]

\* target_dates: [(current_date + timedelta(days=i)).strftime("%Y-%m-%d")
\* for i in range(1, 4)]
TargetDates(current_date) ==
    [i \in 1..3 |-> Strftime(DatePlus(current_date, i))]

\* str.split() on whitespace: the tokens of s, in order.
RECURSIVE Split(_)
Split(s) ==
    IF s = <<>> THEN <<>>
    ELSE IF Head(s) = 32 THEN Split(Tail(s))
    ELSE LET stop == IF \E i \in 1..Len(s) : s[i] = 32
                     THEN (CHOOSE i \in 1..Len(s) :
                               s[i] = 32 /\ \A j \in 1..(i - 1) : s[j] # 32)
                     ELSE Len(s) + 1
         IN  <<SubSeq(s, 1, stop - 1)>> \o Split(SubSeq(s, stop, Len(s)))

\* s.endswith(suffix)
EndsWith(s, suffix) ==
    /\ Len(suffix) <= Len(s)
    /\ SubSeq(s, Len(s) - Len(suffix) + 1, Len(s)) = suffix

\* "12:00:00"
Noon == <<49, 50, 58, 48, 48, 58, 48, 48>>

(***************************************************************************)
(* Weather client: fetch_forecast_by_city_id                               *)
(***************************************************************************)

\* float('inf') and float('-inf'): beyond every temperature of the model.
Inf == 1000000
NegInf == -Inf

Min(a, b) == IF b < a THEN b ELSE a
Max(a, b) == IF b > a THEN b ELSE a

\* A defective scan step: the minimum and the maximum are taken over the
\* samples of every date.
ScanEntryAnyDate(acc, entry, target_date) ==
    IF acc.raise # "" THEN acc
    ELSE IF "dt_txt" \notin DOMAIN entry THEN [acc EXCEPT !.raise = "dt_txt"]
    ELSE IF Split(entry.dt_txt) = <<>> THEN [acc EXCEPT !.raise = "IndexError"]
    ELSE IF "main" \notin DOMAIN entry THEN [acc EXCEPT !.raise = "main"]
    ELSE IF "temp_min" \notin DOMAIN entry.main THEN [acc EXCEPT !.raise = "temp_min"]
    ELSE IF "temp_max" \notin DOMAIN entry.main THEN [acc EXCEPT !.raise = "temp_max"]
    ELSE LET m == [acc EXCEPT !.min_temp = Min(acc.min_temp, entry.main.temp_min),
                              !.max_temp = Max(acc.max_temp, entry.main.temp_max)]
         IN  IF Split(entry.dt_txt)[1] # target_date THEN m
             ELSE IF ~EndsWith(entry.dt_txt, Noon) THEN m
             ELSE IF "weather" \notin DOMAIN entry THEN [m EXCEPT !.raise = "weather"]
             ELSE IF entry.weather = <<>> THEN [m EXCEPT !.raise = "IndexError"]
             ELSE IF "description" \notin DOMAIN entry.weather[1]
             THEN [m EXCEPT !.raise = "description"]
             ELSE IF "icon" \notin DOMAIN entry.weather[1]
             THEN [m EXCEPT !.raise = "icon"]
             ELSE [m EXCEPT !.description = entry.weather[1].description,
                            !.icon_url = IconUrl(entry.weather[1].icon)]

\* One turn of "for entry in data['list']" for one target date.  acc holds
\* min_temp, max_temp, description and icon_url; acc.raise is "" or the
\* key of the KeyError raised, or "IndexError".
ScanEntry(acc, entry, target_date) ==
    IF acc.raise # "" THEN acc
    ELSE IF "dt_txt" \notin DOMAIN entry THEN [acc EXCEPT !.raise = "dt_txt"]
    ELSE IF Split(entry.dt_txt) = <<>> THEN [acc EXCEPT !.raise = "IndexError"]
    ELSE IF Split(entry.dt_txt)[1] # target_date THEN acc
    ELSE IF "main" \notin DOMAIN entry THEN [acc EXCEPT !.raise = "main"]
    ELSE IF "temp_min" \notin DOMAIN entry.main THEN [acc EXCEPT !.raise = "temp_min"]
    ELSE IF "temp_max" \notin DOMAIN entry.main THEN [acc EXCEPT !.raise = "temp_max"]
    ELSE LET m == [acc EXCEPT !.min_temp = Min(acc.min_temp, entry.main.temp_min),
                              !.max_temp = Max(acc.max_temp, entry.main.temp_max)]
         IN  IF ~EndsWith(entry.dt_txt, Noon) THEN m
             ELSE IF "weather" \notin DOMAIN entry THEN [m EXCEPT !.raise = "weather"]
             ELSE IF entry.weather = <<>> THEN [m EXCEPT !.raise = "IndexError"]
             ELSE IF "description" \notin DOMAIN entry.weather[1]
             THEN [m EXCEPT !.raise = "description"]
             ELSE IF "icon" \notin DOMAIN entry.weather[1]
             THEN [m EXCEPT !.raise = "icon"]
             ELSE [m EXCEPT !.description = entry.weather[1].description,
                            !.icon_url = IconUrl(entry.weather[1].icon)]

\* The inner loop over the samples, from the values set before it.
RECURSIVE Scan(_, _, _)
Scan(acc, list, target_date) ==
    IF list = <<>> THEN acc
    ELSE Scan(ScanEntry(acc, Head(list), target_date), Tail(list), target_date)

ScanStart ==
    [min_temp |-> Inf, max_temp |-> NegInf, description |-> <<>>,
     icon_url |-> <<>>, raise |-> ""]

\* A defective loop: an entry whose icon cannot be loaded is left out.
RECURSIVE ForecastLoopSkipIcon(_, _, _, _, _)
ForecastLoopSkipIcon(data, target_dates, icons, forecast, requests) ==
    IF target_dates = <<>> THEN Return(forecast, requests)
    ELSE IF "list" \notin DOMAIN data THEN RaiseDataError("list", requests)
    ELSE LET target_date == Head(target_dates)
             acc == Scan(ScanStart, data.list, target_date)
             asked == IF Sent(acc.icon_url)
                      THEN Append(requests, Request(acc.icon_url, NoParams))
                      ELSE requests
         IN  IF acc.raise = "IndexError" THEN RaiseIndexError(requests)
             ELSE IF acc.raise # "" THEN RaiseDataError(acc.raise, requests)
             ELSE ForecastLoopSkipIcon(data, Tail(target_dates), Tail(icons),
                      IF GetRaises(acc.icon_url, Head(icons)) THEN forecast
                      ELSE Append(forecast,
                                  [date |-> target_date,
                                   temp_min |-> acc.min_temp,
                                   temp_max |-> acc.max_temp,
                                   description |-> acc.description,
                                   pixmap |-> Pixmap(acc.icon_url, Head(icons))]),
                      asked)

\* "for target_date in target_dates": scan, load the icon, append the
\* entry.  icons are the answers of the CDN to the icon requests still to
\* come, forecast the entries appended so far, requests the urls asked.
RECURSIVE ForecastLoop(_, _, _, _, _)
ForecastLoop(data, target_dates, icons, forecast, requests) ==
    IF target_dates = <<>> THEN Return(forecast, requests)
    ELSE IF "list" \notin DOMAIN data THEN RaiseDataError("list", requests)
    ELSE LET target_date == Head(target_dates)
             acc == Scan(ScanStart, data.list, target_date)
             asked == IF Sent(acc.icon_url)
                      THEN Append(requests, Request(acc.icon_url, NoParams))
                      ELSE requests
         IN  IF acc.raise = "IndexError" THEN RaiseIndexError(requests)
             ELSE IF acc.raise # "" THEN RaiseDataError(acc.raise, requests)
             ELSE IF GetRaises(acc.icon_url, Head(icons))
             THEN RaiseRequestError(asked)
             ELSE ForecastLoop(data, Tail(target_dates), Tail(icons),
                      Append(forecast,
                             [date |-> target_date,
                              temp_min |-> acc.min_temp,
                              temp_max |-> acc.max_temp,
                              description |-> acc.description,
                              pixmap |-> Pixmap(acc.icon_url, Head(icons))]),
                      asked)

\* WeatherAPI.fetch_forecast_by_city_id(city_id): reply is what the
\* provider answers, icons what the CDN answers to the first, second and
\* third icon request, current_date is datetime.now(timezone.utc).date().
FetchForecastByCityId(key, city_id, reply, icons, current_date) ==
    LET requests == <<Request(ForecastUrl, Params(key, city_id))>>
    IN  IF GetRaises(ForecastUrl, reply) THEN RaiseRequestError(requests)
        ELSE ForecastLoop(reply.json, TargetDates(current_date), icons, <<>>,
                          requests)

(***************************************************************************)
(* Weather client: fetch_weather_by_city_id                                *)
(***************************************************************************)

\* A defective dict.get: a missing key gives None whatever the default.
GetDefaultNone(d, k, default) == IF k \in DOMAIN d THEN d[k] ELSE None

\* d.get(k, default)
Get(d, k, default) == IF k \in DOMAIN d THEN d[k] ELSE default

\* "Неизвестный город", "Неизвестная страна", "Описание не найдено".
UnknownCity ==
    <<1053, 1077, 1080, 1079, 1074, 1077, 1089, 1090, 1085, 1099, 1081, 32,
      1075, 1086, 1088, 1086, 1076>>
UnknownCountry ==
    <<1053, 1077, 1080, 1079, 1074, 1077, 1089, 1090, 1085, 1072, 1103, 32,
      1089, 1090, 1088, 1072, 1085, 1072>>
DescriptionNotFound ==
    <<1054, 1087, 1080, 1089, 1072, 1085, 1080, 1077, 32, 1085, 1077, 32,
      1085, 1072, 1081, 1076, 1077, 1085, 1086>>

\* datetime.fromtimestamp(ts, tz=timezone.utc).strftime('%H:%M:%S')
TimeOfDay(ts) ==
    LET s == ts % 86400
    IN  Decimal(s \div 3600, 2) \o <<58>> \o Decimal((s % 3600) \div 60, 2)
            \o <<58>> \o Decimal(s % 60, 2)

\* The dict weather_info as the literal builds it, once every subscript of
\* the literal has been found.
WeatherInfo(data) ==
    [city |-> Get(data, "name", UnknownCity),
     country |-> Get(data.sys, "country", UnknownCountry),
     temperature |-> Get(data.main, "temp", None),
     feels_like |-> Get(data.main, "feels_like", None),
     temp_min |-> Get(data.main, "temp_min", None),
     temp_max |-> Get(data.main, "temp_max", None),
     pressure |-> Get(data.main, "pressure", None),
     humidity |-> Get(data.main, "humidity", None),
     visibility |-> Get(data, "visibility", None),
     wind_speed |-> Get(data.wind, "speed", None),
     wind_deg |-> Get(data.wind, "deg", None),
     wind_gust |-> Get(data.wind, "gust", None),
     description |-> Get(data.weather[1], "description", DescriptionNotFound),
     icon |-> Get(data.weather[1], "icon", <<>>),
     clouds |-> Get(data.clouds, "all", None),
     sunrise |-> TimeOfDay(data.sys.sunrise),
     sunset |-> TimeOfDay(data.sys.sunset),
     timezone |-> Get(data, "timezone", None)]

\* weather_info["pixmap"] = pixmap
WithPixmap(weather_info, pixmap) ==
    [k \in DOMAIN weather_info \cup {"pixmap"} |->
         IF k = "pixmap" THEN pixmap ELSE weather_info[k]]

\* The icon request of fetch_weather_by_city_id and what follows it.
WeatherIconStep(weather_info, icon_reply, requests) ==
    LET icon_url == IconUrl(weather_info.icon)
        asked == Append(requests, Request(icon_url, NoParams))
    IN  IF GetRaises(icon_url, icon_reply) THEN RaiseRequestError(asked)
        ELSE Return(WithPixmap(weather_info, Pixmap(icon_url, icon_reply)), asked)

\* WeatherAPI.fetch_weather_by_city_id(city_id): reply is what the provider
\* answers, icon_reply what the CDN answers.  The subscripts of the dict
\* literal raise in the order the literal is written.
FetchWeatherByCityId(key, city_id, reply, icon_reply) ==
    LET requests == <<Request(BaseUrl, Params(key, city_id))>>
        data == reply.json
    IN  IF GetRaises(BaseUrl, reply) THEN RaiseRequestError(requests)
        ELSE IF "sys" \notin DOMAIN data THEN RaiseDataError("sys", requests)
        ELSE IF "main" \notin DOMAIN data THEN RaiseDataError("main", requests)
        ELSE IF "wind" \notin DOMAIN data THEN RaiseDataError("wind", requests)
        ELSE IF "weather" \notin DOMAIN data THEN RaiseDataError("weather", requests)
        ELSE IF data.weather = <<>> THEN RaiseIndexError(requests)
        ELSE IF "clouds" \notin DOMAIN data THEN RaiseDataError("clouds", requests)
        ELSE IF "sunrise" \notin DOMAIN data.sys
        THEN RaiseDataError("sunrise", requests)
        ELSE IF "sunset" \notin DOMAIN data.sys
        THEN RaiseDataError("sunset", requests)
        ELSE WeatherIconStep(WeatherInfo(data), icon_reply, requests)

(***************************************************************************)
(* Weather client: the calls made and what the network answers             *)
(***************************************************************************)

\* The function f without the keys in gone.
Without(f, gone) == [k \in DOMAIN f \ gone |-> f[k]]

\* "15:00:00", "ясно", "пасмурно", "01d", "04d", "524901"
Afternoon == <<49, 53, 58, 48, 48, 58, 48, 48>>
Clear == <<1103, 1089, 1085, 1086>>
Overcast == <<1087, 1072, 1089, 1084, 1091, 1088, 1085, 1086>>
ClearIcon == <<48, 49, 100>>
OvercastIcon == <<48, 52, 100>>
Moscow == <<53, 50, 52, 57, 48, 49>>

\* The statuses the provider answers a refused request with.
ErrorStatuses == {401, 404, 500}
\* 300 Multiple Choices: a 3xx answer, which requests hands over as it is.
OtherStatuses == {300}

\* The body of an error answer: {"cod": ..., "message": ...}.
ErrorBody(status_code) == [cod |-> status_code, message |-> <<>>]

\* The icon served by the CDN, and its other answers: 200 with a body
\* that is no image, 300 Multiple Choices (a 3xx answer, which requests
\* hands over as it is), 404, and no answer at all.
IconOk == IconResponse(200, Png)
IconReplies ==
    {IconOk, IconResponse(200, NoImage), IconResponse(300, NoImage),
     IconResponse(404, NoImage), Exception}

\* A complete answer to the current-weather request.
FullWeather ==
    [name |-> <<1052, 1086, 1089, 1082, 1074, 1072>>,
     sys |-> [country |-> RU, sunrise |-> 1709010000, sunset |-> 1709047800],
     main |-> [temp |-> 21, feels_like |-> 20, temp_min |-> 19,
               temp_max |-> 23, pressure |-> 1013, humidity |-> 40],
     visibility |-> 10000,
     wind |-> [speed |-> 3, deg |-> 180, gust |-> 5],
     weather |-> <<[description |-> Clear, icon |-> ClearIcon]>>,
     clouds |-> [all |-> 0],
     timezone |-> 10800]

\* The answers with parts left out: up to two top-level keys, and a field
\* of sys, main, wind or weather[0]; weather may be an empty list.
WeatherBodies ==
    LET tops == {"name", "sys", "main", "wind", "weather", "clouds"}
    IN  {Without([FullWeather EXCEPT !.sys = Without(@, sysGone),
                                     !.main = Without(@, mainGone),
                                     !.wind = Without(@, windGone),
                                     !.weather = weather],
                 gone) :
            gone \in {g \in SUBSET tops : Cardinality(g) <= 2},
            sysGone \in {{}, {"country"}, {"sunrise"}, {"sunset"}},
            mainGone \in {{}, {"temp"}, {"pressure"}},
            windGone \in {{}, {"deg"}},
            weather \in {FullWeather.weather, <<>>,
                         <<Without(FullWeather.weather[1], {"description"})>>,
                         <<Without(FullWeather.weather[1], {"icon"})>>}}

\* What the provider may answer to the current-weather request.
WeatherReplies ==
    {Response(200, data) : data \in WeatherBodies}
        \cup {Response(s, ErrorBody(s)) : s \in ErrorStatuses}
        \cup {Response(s, FullWeather) : s \in OtherStatuses}
        \cup {Exception}

\* The dates "today" of the model: the three days after them cross the end
\* of a leap February, and the end of a year.
Todays ==
    {[year |-> 2024, month |-> 2, day |-> 27],
     [year |-> 2023, month |-> 12, day |-> 30]}

\* "YYYY-MM-DD HH:MM:SS"
DtTxt(date, time) == Strftime(date) \o <<32>> \o time

\* A sample of the forecast list.
Entry(dt_txt, temp_min, temp_max, description, icon) ==
    [dt_txt |-> dt_txt,
     main |-> [temp_min |-> temp_min, temp_max |-> temp_max],
     weather |-> <<[description |-> description, icon |-> icon]>>]

\* The samples the provider may list when today is current_date: of the
\* first and the second day to come, at noon and in the afternoon; of the
\* third and of today, at noon; and one without its "main" object.
Samples(current_date) ==
    {Entry(DtTxt(DatePlus(current_date, 1), Noon), 1, 10, Clear, ClearIcon),
     Entry(DtTxt(DatePlus(current_date, 1), Afternoon), 0, 12, Overcast, OvercastIcon),
     Entry(DtTxt(DatePlus(current_date, 2), Noon), 5, 6, Overcast, OvercastIcon),
     Entry(DtTxt(DatePlus(current_date, 2), Afternoon), 7, 8, Clear, ClearIcon),
     Entry(DtTxt(DatePlus(current_date, 3), Noon), 2, 4, Clear, ClearIcon),
     Entry(DtTxt(current_date, Noon), -5, 30, Clear, ClearIcon),
     Without(Entry(DtTxt(DatePlus(current_date, 1), Noon), 1, 10, Clear, ClearIcon),
             {"main"})}

\* The longest forecast list of the model.
MaxSamples == 4

ForecastLists(current_date) ==
    UNION {[1..n -> Samples(current_date)] : n \in 0..MaxSamples}

\* A complete forecast list.
FullForecast(current_date) ==
    <<Entry(DtTxt(DatePlus(current_date, 1), Noon), 1, 10, Clear, ClearIcon),
      Entry(DtTxt(DatePlus(current_date, 2), Noon), 5, 6, Overcast, OvercastIcon),
      Entry(DtTxt(DatePlus(current_date, 3), Noon), 2, 4, Clear, ClearIcon)>>

\* What the provider may answer to the forecast request.
ForecastReplies(current_date) ==
    {Response(200, [list |-> list]) : list \in ForecastLists(current_date)}
        \cup {Response(s, ErrorBody(s)) : s \in ErrorStatuses}
        \cup {Response(s, [list |-> FullForecast(current_date)]) : s \in OtherStatuses}
        \cup {Response(200, ErrorBody(200)), Exception}

\* What the CDN may answer to the three icon requests: all served; the
\* first, the second or the third refused; the second answered 300; the
\* third answered 200 with a body that is no image.
ForecastIconReplies ==
    {<<IconOk, IconOk, IconOk>>, <<Exception, IconOk, IconOk>>,
     <<IconOk, IconResponse(404, NoImage), IconOk>>,
     <<IconOk, IconOk, IconResponse(500, NoImage)>>,
     <<IconOk, IconResponse(300, NoImage), IconOk>>,
     <<IconOk, IconOk, IconResponse(200, NoImage)>>}

\* One call of fetch_weather_by_city_id, with what the network answered.
FetchWeather ==
    /\ fetch.op = "none"
    /\ \E city_id \in {Moscow}, reply \in WeatherReplies, icon_reply \in IconReplies :
           fetch' = [op |-> "fetch_weather_by_city_id", city_id |-> city_id,
                     reply |-> reply, icon_reply |-> icon_reply,
                     result |-> FetchWeatherByCityId(api_key, city_id, reply,
                                                     icon_reply)]
    /\ UNCHANGED <<settingsVars, catalogVars, fetchVars, migrate>>

\* One call of fetch_forecast_by_city_id, with what the network answered
\* and the day it was made.
FetchForecast ==
    /\ fetch.op = "none"
    /\ \E city_id \in {Moscow}, current_date \in Todays :
           \E reply \in ForecastReplies(current_date), icons \in ForecastIconReplies :
               fetch' = [op |-> "fetch_forecast_by_city_id", city_id |-> city_id,
                         reply |-> reply, icons |-> icons,
                         current_date |-> current_date,
                         result |-> FetchForecastByCityId(api_key, city_id, reply,
                                                          icons, current_date)]
    /\ UNCHANGED <<settingsVars, catalogVars, fetchVars, migrate>>

\* The settings the client may be built over: no key saved, or the key
\* "k1" saved from the settings page.
KeyStores ==
    {{}, SetSettingRows({}, 1, "OPEN_WEATHER_MAP_API_KEY", <<107, 49>>)}

\* WeatherAPI(database): api_key is read from the settings once.
InitClient ==
    /\ settings \in KeyStores
    /\ seq = Cardinality(settings)
    /\ hist = <<>>
    /\ everSet = {r.setting_name : r \in settings}
    /\ InitCatalog
    /\ fetch = [op |-> "none"]
    /\ migrate = NoMigrate
    /\ api_key = GetSettingValue(settings, "OPEN_WEATHER_MAP_API_KEY")
    /\ stack = "none"
    /\ labels = <<>>
    /\ forecast_cards = <<>>
    /\ threads = <<>>
    /\ queue = <<>>
    /\ log = <<>>

NextClient == FetchWeather \/ FetchForecast

\* One call on a client, with every answer of the network.
SpecClient == InitClient /\ [][NextClient]_vars

(***************************************************************************)
(* Home page: what the labels show                                         *)
(***************************************************************************)

\* x is None.  A number and None are told apart by how they are written.
IsNone(x) == ToString(x) = ToString(None)

\* f"{x}" of a number or None: "21", "-5", "None".
Format(x) ==
    IF IsNone(x) THEN <<78, 111, 110, 101>>
    ELSE IF x < 0 THEN <<45>> \o Decimal(-x, 1)
    ELSE Decimal(x, 1)

\* degrees_to_compass(deg): directions[round(deg / 45) % 8], for a whole
\* number of degrees (deg / 45 is then never half way between two integers).
DegreesToCompass(deg) ==
    LET directions == <<<<1057>>, <<1057, 1042>>, <<1042>>, <<1070, 1042>>,
                        <<1070>>, <<1070, 1047>>, <<1047>>, <<1057, 1047>>>>
    IN  directions[(((2 * deg + 45) \div 90) % 8) + 1]

\* round(pressure * 0.750063755), for a whole number of hPa below 3000.
MmHg(pressure) == (pressure * 75006 + 50000) \div 100000

\* QPixmap()
EmptyPixmap == [image |-> <<>>]

\* The labels of the weather screen as create_weather_screen leaves them:
\* "Текущая погода в городе -", "Температура: -", "Описание: -",
\* "Давление: -", an empty pixmap, "Ощущаемая температура: -", "- %",
\* "- М/С".
InitialLabels ==
    [weather_title |-> <<1058, 1077, 1082, 1091, 1097, 1072, 1103, 32, 1087,
                         1086, 1075, 1086, 1076, 1072, 32, 1074, 32, 1075,
                         1086, 1088, 1086, 1076, 1077, 32, 45>>,
     temp_label |-> <<1058, 1077, 1084, 1087, 1077, 1088, 1072, 1090, 1091,
                      1088, 1072, 58, 32, 45>>,
     desc_label |-> <<1054, 1087, 1080, 1089, 1072, 1085, 1080, 1077, 58, 32, 45>>,
     pressure_label |-> <<1044, 1072, 1074, 1083, 1077, 1085, 1080, 1077, 58, 32, 45>>,
     weather_icon_label |-> EmptyPixmap,
     feels_like_label |-> <<1054, 1097, 1091, 1097, 1072, 1077, 1084, 1072,
                            1103, 32, 1090, 1077, 1084, 1087, 1077, 1088,
                            1072, 1090, 1091, 1088, 1072, 58, 32, 45>>,
     humidity_label |-> <<45, 32, 37>>,
     wind_label |-> <<45, 32, 1052, 47, 1057>>]

\* The labels of a forecast card while its data is loaded: "", QPixmap(),
\* "", "", "Загрузка...".
LoadingCard ==
    [date_label |-> <<>>, icon_label |-> EmptyPixmap, temp_min_label |-> <<>>,
     temp_max_label |-> <<>>,
     desc_label |-> <<1047, 1072, 1075, 1088, 1091, 1079, 1082, 1072, 46, 46, 46>>]

\* update_forecast, one card: the date, the pixmap, "Мин. температура:
\* {temp_min}°C", "Макс. температура: {temp_max}°C", the description.
ForecastCard(data) ==
    [date_label |-> data.date,
     icon_label |-> data.pixmap,
     temp_min_label |->
         <<1052, 1080, 1085, 46, 32, 1090, 1077, 1084, 1087, 1077, 1088, 1072,
           1090, 1091, 1088, 1072, 58, 32>> \o Format(data.temp_min) \o <<176, 67>>,
     temp_max_label |->
         <<1052, 1072, 1082, 1089, 46, 32, 1090, 1077, 1084, 1087, 1077, 1088,
           1072, 1090, 1091, 1088, 1072, 58, 32>> \o Format(data.temp_max)
             \o <<176, 67>>,
     desc_label |-> data.description]

\* update_forecast(forecast_data): card i takes entry i.
UpdateForecast(cards, forecast_data) ==
    [i \in 1..Len(cards) |->
         IF i <= Len(forecast_data) THEN ForecastCard(forecast_data[i])
         ELSE cards[i]]

\* The first three setText of update_weather_ui: "Текущая погода в:
\* {city}", "{temp} ℃", "{description}".
TitleLabels(shown, weather_data) ==
    [shown EXCEPT
         !.weather_title =
             <<1058, 1077, 1082, 1091, 1097, 1072, 1103, 32, 1087, 1086, 1075,
               1086, 1076, 1072, 32, 1074, 58, 32>> \o weather_data.city,
         !.temp_label = Format(weather_data.temperature) \o <<32, 8451>>,
         !.desc_label = weather_data.description]

\* The other labels: "{round(pressure * 0.750063755)} мм рт. ст. ", the
\* pixmap, "Ощущается как {feels_like} ℃", "{humidity}% ",
\* "{wind_speed} м/с, {compass}".
DetailLabels(shown, weather_data) ==
    [shown EXCEPT
         !.pressure_label =
             Format(MmHg(weather_data.pressure))
                 \o <<32, 1084, 1084, 32, 1088, 1090, 46, 32, 1089, 1090, 46, 32>>,
         !.weather_icon_label = weather_data.pixmap,
         !.feels_like_label =
             <<1054, 1097, 1091, 1097, 1072, 1077, 1090, 1089, 1103, 32, 1082,
               1072, 1082, 32>> \o Format(weather_data.feels_like) \o <<32, 8451>>,
         !.humidity_label = Format(weather_data.humidity) \o <<37, 32>>,
         !.wind_label =
             Format(weather_data.wind_speed) \o <<32, 1084, 47, 1089, 44, 32>>
                 \o DegreesToCompass(weather_data.wind_deg)]

\* The body of update_weather_ui: the labels, the cards and the widget of
\* the stack it leaves, and the TypeError it raises on the way, if any
\* (None / 45 in degrees_to_compass, None * 0.750063755 for the pressure).
UpdateWeatherUiBody(shown, cards, current, weather_data, forecast_data) ==
    IF IsNone(weather_data.wind_deg)
    THEN [labels |-> shown, forecast_cards |-> cards, stack |-> current,
          raised |-> TRUE]
    ELSE IF IsNone(weather_data.pressure)
    THEN [labels |-> TitleLabels(shown, weather_data), forecast_cards |-> cards,
          stack |-> current, raised |-> TRUE]
    ELSE [labels |-> DetailLabels(TitleLabels(shown, weather_data), weather_data),
          forecast_cards |-> UpdateForecast(cards, forecast_data),
          stack |-> "weather_widget", raised |-> FALSE]

(***************************************************************************)
(* Home page: update_weather, its worker thread and update_weather_ui      *)
(***************************************************************************)

\* How many times update_weather is called in one run of the application,
\* the call of __init__ included.
MaxRequests == 2

\* The cities whose cards are clicked.
ClickCityIds == {1, 2}

\* The day the fetches are made.
FetchToday == [year |-> 2024, month |-> 2, day |-> 27]

\* A city_id is an int (the id of a clicked card) and not a str or None
\* (what get_setting returned).
IsInt(x) == \E n \in ClickCityIds : ToString(x) = ToString(n)

\* The TEXT column setting_value keeps an int as its decimal text and a
\* str as it is.
TextAffinity(value) == IF IsInt(value) THEN Decimal(value, 1) ELSE value

\* requests writes an int parameter as its decimal text and a str as it
\* is; None stays None (and is left out by QueryString).
Encoded(city_id) == IF IsInt(city_id) THEN Decimal(city_id, 1) ELSE city_id

\* The name the provider gives the city of an encoded id: Cyrillic capital
\* ghe and the id.
CityName(id) == IF IsNone(id) THEN <<1043>> ELSE <<1043>> \o id

\* The body the provider serves for the city of an encoded id.
CityWeather(id) == [FullWeather EXCEPT !.name = CityName(id)]

\* What the network answers to the worker's fetch_weather_by_city_id: all
\* served; the pressure left out; the wind direction left out; the icon
\* refused; the request refused.
WorkerWeatherAnswers(id) ==
    {<<Response(200, CityWeather(id)), IconOk>>,
     <<Response(200, [CityWeather(id) EXCEPT !.main = Without(@, {"pressure"})]), IconOk>>,
     <<Response(200, [CityWeather(id) EXCEPT !.wind = Without(@, {"deg"})]), IconOk>>,
     <<Response(200, CityWeather(id)), IconResponse(404, NoImage)>>,
     <<Response(404, ErrorBody(404)), IconOk>>}

\* The samples the provider serves for the city of an encoded id: those of
\* FullForecast, the maxima raised by the last digit of the id.
CityForecast(id) ==
    LET shift == IF IsNone(id) THEN 0 ELSE id[Len(id)] - 48
    IN  [i \in 1..Len(FullForecast(FetchToday)) |->
            [FullForecast(FetchToday)[i] EXCEPT !.main.temp_max = @ + shift]]

\* What it answers to the worker's fetch_forecast_by_city_id: all served;
\* no sample of the second day at noon; the request refused.
WorkerForecastAnswers(id) ==
    {<<Response(200, [list |-> CityForecast(id)]), <<IconOk, IconOk, IconOk>>>>,
     <<Response(200, [list |-> <<CityForecast(id)[1], CityForecast(id)[3]>>]),
       <<IconOk, IconOk, IconOk>>>>,
     <<Response(500, ErrorBody(500)), <<IconOk, IconOk, IconOk>>>>}

\* A defective start: Thread(target=fetch_and_update()), the call is made
\* by the caller and its result handed to the thread.
StartedThreadCalledFirst(city_id) ==
    [city_id |-> city_id, pc |-> "fetch_weather", weather_data |-> None,
     forecast_data |-> None, runner |-> "MainThread", sent |-> <<>>,
     storage_calls |-> <<>>, handed |-> 0, asked |-> 0, waiting |-> FALSE,
     answer |-> None, fetching |-> None]

\* The thread update_weather starts, about to run fetch_and_update: the
\* city_id of its closure, the thread that runs the closure, the requests
\* it has put on the wire, the calls it has made on the storage
\* connection, its place among the invocations of update_weather_ui (0:
\* none made), and of the fetch it is in: how many of its requests.get
\* calls have returned, whether it is inside one (the request on the
\* wire, no answer yet), what the network answers to them, and the course
\* the fetch takes under these answers with the params copied at its
\* start (None: in no fetch).
StartedThread(city_id) ==
    [city_id |-> city_id, pc |-> "fetch_weather", weather_data |-> None,
     forecast_data |-> None, runner |-> "Thread", sent |-> <<>>,
     storage_calls |-> <<>>, handed |-> 0, asked |-> 0, waiting |-> FALSE,
     answer |-> None, fetching |-> None]

\* A defective order: the thread is started first.
UpdateWeatherStepsThreadFirst == <<"thread_start", "loading_widget", "forecast_cards">>

\* The statements of update_weather, in their order: setCurrentWidget(
\* loading_widget), the loop over the cards, Thread(...).start().
UpdateWeatherSteps == <<"loading_widget", "forecast_cards", "thread_start">>

\* What a request put on the wire is logged as.
RequestEvent(request) ==
    IF request.url = BaseUrl THEN "weather_request"
    ELSE IF request.url = ForecastUrl THEN "forecast_request"
    ELSE "icon_request"

\* The k-th requests.get call of a fetch is the last one it makes.
LastRequest(result, k) == k = Len(result.requests)

\* What the k-th requests.get call of a fetch of the worker is logged as:
\* its request when it is put on the wire and, when its answer has come
\* and it is the last call, the end of the fetch.
FetchEvents(result, name, k, answered) ==
    IF ~answered THEN <<RequestEvent(result.requests[k])>>
    ELSE IF ~LastRequest(result, k) THEN <<>>
    ELSE IF result.status = "return" THEN <<name \o "_returned">>
    ELSE <<name \o "_raised">>

\* A request put on the wire, with the thread that sent it and the key the
\* store held when it was sent.
SentBy(request, runner, tbl) ==
    <<[request |-> request, thread |-> runner,
       stored |-> GetSettingValue(tbl, "OPEN_WEATHER_MAP_API_KEY")]>>

\* A defective worker: a failed fetch is caught and the worker goes on (as
\* get_weather_data does).
AfterFetchCaught(result, next) == next

\* A defective worker: only a failed forecast fetch is caught.
AfterFetchForecastCaught(result, next) ==
    IF result.status = "return" \/ next = "invoke" THEN next ELSE "died"

\* Where the worker is after a fetch: at the next statement, or dead of
\* the exception no one catches.
AfterFetch(result, next) == IF result.status = "return" THEN next ELSE "died"

\* What the fetch gave the worker.
Fetched(result) == IF result.status = "return" THEN result.value ELSE None

\* An update_weather_ui that raised has ended the application.
Aborted == \E n \in 1..Len(log) : \E i \in 1..Len(log[n]) : log[n][i] = "abort"

\* A defective client: the key is read from the store at every fetch, by
\* the thread that fetches.
DefaultParamsFromStore(key, tbl) ==
    [appid |-> GetSettingValue(tbl, "OPEN_WEATHER_MAP_API_KEY"),
     storage_calls |-> <<[op |-> "get_setting", name |-> "OPEN_WEATHER_MAP_API_KEY",
                          result |-> GetSettingValue(tbl, "OPEN_WEATHER_MAP_API_KEY")]>>]

\* params = self.default_params.copy(): the appid is the key __init__ put
\* in default_params; the store is not called.
DefaultParamsCopy(key, tbl) == [appid |-> key, storage_calls |-> <<>>]

\* A defective on_card_click: update_weather(city_id) alone, nothing is
\* stored.
LastCityRowsNotStored(tbl, rowid, city_id) == tbl

\* self.database.set_setting('LAST_SITY_ID', city_id): the table after it.
LastCityRows(tbl, rowid, city_id) ==
    SetSettingRows(tbl, rowid, "LAST_SITY_ID", TextAffinity(city_id))

\* A defective event queue: the newest posted invocation is run first.
PostedFirst(q, call) == <<call>> \o q

\* QMetaObject.invokeMethod(..., Qt.QueuedConnection, ...): the invocation
\* is posted behind those already queued for the receiver's thread.
Posted(q, call) == Append(q, call)

\* How many invocations of update_weather_ui the threads have posted.
HandedSoFar(ts) == Cardinality({n \in 1..Len(ts) : ts[n].handed > 0})

\* on_card_click(city_id): set_setting('LAST_SITY_ID', city_id), then
\* update_weather(city_id): the loading widget, the cards, the thread.
OnCardClick(city_id) ==
    /\ Len(threads) < MaxRequests
    /\ seq < MaxSetCalls
    /\ ~Aborted
    /\ settings' = LastCityRows(settings, seq + 1, city_id)
    /\ seq' = seq + 1
    /\ everSet' = everSet \cup {"LAST_SITY_ID"}
    /\ stack' = "loading_widget"
    /\ forecast_cards' = [i \in 1..3 |-> LoadingCard]
    /\ threads' = Append(threads, StartedThread(city_id))
    /\ log' = Append(log, UpdateWeatherSteps)
    /\ UNCHANGED <<hist, catalogVars, clientVars, api_key, labels, queue>>

\* fetch_and_update, first statement: fetch_weather_by_city_id(city_id),
\* one step of it, the network answering the fetch with answer.  Outside
\* requests.get the worker puts its next request on the wire and blocks
\* (default_params.copy() goes with the first); inside, the answer comes
\* and the worker runs on to its next requests.get call or, after the
\* last, to the end of the fetch.  Between two steps the other threads
\* run.
WorkerFetchWeather(n, answer) ==
    /\ threads[n].pc = "fetch_weather"
    /\ (threads[n].asked = 0 /\ ~threads[n].waiting) \/ threads[n].answer = answer
    /\ ~Aborted
    /\ \E params \in {DefaultParamsCopy(api_key, settings)} :
       \E result \in {IF threads[n].asked = 0 /\ ~threads[n].waiting
                       THEN FetchWeatherByCityId(params.appid, Encoded(threads[n].city_id),
                                answer[1], answer[2])
                       ELSE threads[n].fetching} :
       \E k \in {threads[n].asked + 1} :
           /\ threads' =
                  IF ~threads[n].waiting
                  THEN [threads EXCEPT
                           ![n].sent = @ \o SentBy(result.requests[k],
                                                   threads[n].runner, settings),
                           ![n].storage_calls = IF k = 1 THEN @ \o params.storage_calls
                                                ELSE @,
                           ![n].waiting = TRUE,
                           ![n].answer = answer,
                           ![n].fetching = result]
                  ELSE [threads EXCEPT
                           ![n].pc = IF LastRequest(result, k)
                                     THEN AfterFetch(result, "fetch_forecast") ELSE @,
                           ![n].weather_data = IF LastRequest(result, k)
                                     THEN Fetched(result) ELSE @,
                           ![n].asked = IF LastRequest(result, k) THEN 0 ELSE k,
                           ![n].waiting = FALSE,
                           ![n].answer = IF LastRequest(result, k) THEN None ELSE @,
                           ![n].fetching = IF LastRequest(result, k) THEN None ELSE @]
           /\ log' = [log EXCEPT ![n] =
                          @ \o FetchEvents(result, "weather", k, threads[n].waiting)]
    /\ UNCHANGED <<settingsVars, catalogVars, clientVars, api_key, stack,
                   labels, forecast_cards, queue>>

\* Second statement: fetch_forecast_by_city_id(city_id), one step of it in
\* the same way, the network answering the fetch with answer.
WorkerFetchForecast(n, answer) ==
    /\ threads[n].pc = "fetch_forecast"
    /\ (threads[n].asked = 0 /\ ~threads[n].waiting) \/ threads[n].answer = answer
    /\ ~Aborted
    /\ \E params \in {DefaultParamsCopy(api_key, settings)} :
       \E result \in {IF threads[n].asked = 0 /\ ~threads[n].waiting
                       THEN FetchForecastByCityId(params.appid, Encoded(threads[n].city_id),
                                answer[1], answer[2], FetchToday)
                       ELSE threads[n].fetching} :
       \E k \in {threads[n].asked + 1} :
           /\ threads' =
                  IF ~threads[n].waiting
                  THEN [threads EXCEPT
                           ![n].sent = @ \o SentBy(result.requests[k],
                                                   threads[n].runner, settings),
                           ![n].storage_calls = IF k = 1 THEN @ \o params.storage_calls
                                                ELSE @,
                           ![n].waiting = TRUE,
                           ![n].answer = answer,
                           ![n].fetching = result]
                  ELSE [threads EXCEPT
                           ![n].pc = IF LastRequest(result, k)
                                     THEN AfterFetch(result, "invoke") ELSE @,
                           ![n].forecast_data = IF LastRequest(result, k)
                                     THEN Fetched(result) ELSE @,
                           ![n].asked = IF LastRequest(result, k) THEN 0 ELSE k,
                           ![n].waiting = FALSE,
                           ![n].answer = IF LastRequest(result, k) THEN None ELSE @,
                           ![n].fetching = IF LastRequest(result, k) THEN None ELSE @]
           /\ log' = [log EXCEPT ![n] =
                          @ \o FetchEvents(result, "forecast", k, threads[n].waiting)]
    /\ UNCHANGED <<settingsVars, catalogVars, clientVars, api_key, stack,
                   labels, forecast_cards, queue>>

\* Third statement: QMetaObject.invokeMethod(self, "update_weather_ui",
\* QueuedConnection, weather_data, forecast_data), and the thread ends.
WorkerInvoke(n) ==
    /\ threads[n].pc = "invoke"
    /\ ~Aborted
    /\ queue' = Posted(queue, [request |-> n,
                               weather_data |-> threads[n].weather_data,
                               forecast_data |-> threads[n].forecast_data])
    /\ threads' = [threads EXCEPT ![n].pc = "finished",
                                  ![n].handed = HandedSoFar(threads) + 1]
    /\ log' = [log EXCEPT ![n] = Append(@, "invoke")]
    /\ UNCHANGED <<settingsVars, catalogVars, clientVars, api_key, stack,
                   labels, forecast_cards>>

\* A defective run: an exception raised in a slot is printed by a hook
\* and the event loop may go on.
SlotRaiseEndsHooked == {"abort", "go_on"}

\* How an exception raised in a slot ends: main() installs no
\* sys.excepthook, and PyQt5 then aborts the application.
SlotRaiseEnds == {"abort"}

\* update_weather_ui(weather_data, forecast_data), run by the event loop
\* for the oldest queued invocation.  A TypeError raised in the slot
\* ends the application.
UpdateWeatherUi ==
    /\ ~Aborted
    /\ queue # <<>>
    /\ \E call \in {Head(queue)} :
       \E body \in {UpdateWeatherUiBody(labels, forecast_cards, stack,
                                        call.weather_data, call.forecast_data)} :
           /\ labels' = body.labels
           /\ forecast_cards' = body.forecast_cards
           /\ stack' = body.stack
           /\ IF body.raised
              THEN \E end \in SlotRaiseEnds :
                       log' = [log EXCEPT ![call.request] =
                                   @ \o <<"update_weather_ui", "TypeError", end>>]
              ELSE log' = [log EXCEPT ![call.request] =
                               @ \o <<"update_weather_ui", "weather_widget">>]
    /\ queue' = Tail(queue)
    /\ UNCHANGED <<settingsVars, catalogVars, clientVars, api_key, threads>>

\* str.strip() of what was typed (the whitespace typed is the space).
RECURSIVE Strip(_)
Strip(s) ==
    IF s = <<>> THEN s
    ELSE IF Head(s) = 32 THEN Strip(Tail(s))
    ELSE IF s[Len(s)] = 32 THEN Strip(SubSeq(s, 1, Len(s) - 1))
    ELSE s

\* What is typed into api_key_input: " k2", and a lone space.
KeyInputs == {<<32, 107, 50>>, <<32>>}

\* SettingPage.save_api_key with text in api_key_input: the stripped text,
\* when not empty, is stored (and a message box tells so); otherwise a
\* warning box is shown.  The WeatherAPI of the home page is not touched.
SaveApiKey(text) ==
    LET new_api_key == Strip(text)
    IN  /\ ~Aborted
        /\ seq < MaxSetCalls
        /\ IF new_api_key # <<>>
           THEN /\ settings' = SetSettingRows(settings, seq + 1,
                                              "OPEN_WEATHER_MAP_API_KEY", new_api_key)
                /\ seq' = seq + 1
                /\ everSet' = everSet \cup {"OPEN_WEATHER_MAP_API_KEY"}
                /\ UNCHANGED hist
           ELSE UNCHANGED settingsVars
        /\ UNCHANGED <<catalogVars, clientVars, fetchVars>>

\* The settings the application may be started over: nothing saved, or
\* the key "k1" and the last city 1 saved.
StartStores ==
    {{}, SetSettingRows(SetSettingRows({}, 1, "OPEN_WEATHER_MAP_API_KEY", <<107, 49>>),
                        2, "LAST_SITY_ID", <<49>>)}

\* HomePage.__init__ over the settings tbl: Database(), WeatherAPI(
\* database) with its get_setting('OPEN_WEATHER_MAP_API_KEY'), init_ui(),
\* and update_weather(get_setting('LAST_SITY_ID')).
StartUp(tbl) ==
    [api_key |-> GetSettingValue(tbl, "OPEN_WEATHER_MAP_API_KEY"),
     stack |-> "loading_widget",
     labels |-> InitialLabels,
     forecast_cards |-> [i \in 1..3 |-> LoadingCard],
     threads |-> <<StartedThread(GetSettingValue(tbl, "LAST_SITY_ID"))>>,
     queue |-> <<>>,
     log |-> <<UpdateWeatherSteps>>]

\* The application is closed (its daemon threads and queued invocations go
\* with the process) and started again over the same database file.
Restart ==
    /\ api_key' = StartUp(settings).api_key
    /\ stack' = StartUp(settings).stack
    /\ labels' = StartUp(settings).labels
    /\ forecast_cards' = StartUp(settings).forecast_cards
    /\ threads' = StartUp(settings).threads
    /\ queue' = StartUp(settings).queue
    /\ log' = StartUp(settings).log
    /\ UNCHANGED <<settingsVars, catalogVars, clientVars>>

InitHomePage ==
    /\ settings \in StartStores
    /\ seq = Cardinality(settings)
    /\ hist = <<>>
    /\ everSet = {r.setting_name : r \in settings}
    /\ InitCatalog
    /\ fetch = [op |-> "none"]
    /\ migrate = NoMigrate
    /\ api_key = StartUp(settings).api_key
    /\ stack = StartUp(settings).stack
    /\ labels = StartUp(settings).labels
    /\ forecast_cards = StartUp(settings).forecast_cards
    /\ threads = StartUp(settings).threads
    /\ queue = StartUp(settings).queue
    /\ log = StartUp(settings).log

\* The cards whose star is clicked.
FavoriteClickIds == {1}

\* Nothing is left to run: every worker thread has ended and no invocation
\* of update_weather_ui is queued.
Quiescent ==
    /\ \A n \in 1..Len(threads) : threads[n].pc \in {"finished", "died"}
    /\ queue = <<>>

\* What the network may answer to the fetch thread n is in: one of
\* answers at its start, the one it was started with afterwards.
Answers(n, answers) ==
    IF threads[n].asked = 0 /\ ~threads[n].waiting THEN answers
    ELSE {threads[n].answer}

\* The threads about to run the statement pc.
At(pc) == {n \in 1..Len(threads) : threads[n].pc = pc}

\* The card clicked where the answers of the network vary: that of a city
\* other than the one the application was started for.
FetchClickIds == {2}

NextFetch ==
    \/ \E city_id \in FetchClickIds : OnCardClick(city_id)
    \/ \E n \in At("fetch_weather") :
           \E answer \in Answers(n, WorkerWeatherAnswers(Encoded(threads[n].city_id))) :
               WorkerFetchWeather(n, answer)
    \/ \E n \in At("fetch_forecast") :
           \E answer \in Answers(n, WorkerForecastAnswers(Encoded(threads[n].city_id))) :
               WorkerFetchForecast(n, answer)
    \/ \E n \in At("invoke") : WorkerInvoke(n)
    \/ UpdateWeatherUi

\* The home page under clicks on city cards, with the worker threads and
\* the event loop in any interleaving.
SpecFetch == InitHomePage /\ [][NextFetch]_vars

\* What the network answers where the storage calls are looked at: all
\* is served in full.
RunWeatherAnswers(id) == {<<Response(200, CityWeather(id)), IconOk>>}
RunForecastAnswers(id) ==
    {<<Response(200, [list |-> CityForecast(id)]), <<IconOk, IconOk, IconOk>>>>}

NextRuns ==
    \/ \E city_id \in ClickCityIds : OnCardClick(city_id)
    \/ \E n \in At("fetch_weather") :
           \E answer \in Answers(n, RunWeatherAnswers(Encoded(threads[n].city_id))) :
               WorkerFetchWeather(n, answer)
    \/ \E n \in At("fetch_forecast") :
           \E answer \in Answers(n, RunForecastAnswers(Encoded(threads[n].city_id))) :
               WorkerFetchForecast(n, answer)
    \/ \E n \in At("invoke") : WorkerInvoke(n)
    \/ UpdateWeatherUi
    \/ \E text \in KeyInputs : SaveApiKey(text)
    \/ Restart

\* The home page with cards clicked and keys saved on the settings page
\* at any moment, and the application closed and started again at any
\* moment.
SpecRuns == InitHomePage /\ [][NextRuns]_vars

NextStars ==
    \/ \E city_id \in ClickCityIds : OnCardClick(city_id)
    \/ \E n \in At("fetch_weather") :
           \E answer \in Answers(n, RunWeatherAnswers(Encoded(threads[n].city_id))) :
               WorkerFetchWeather(n, answer)
    \/ \E n \in At("fetch_forecast") :
           \E answer \in Answers(n, RunForecastAnswers(Encoded(threads[n].city_id))) :
               WorkerFetchForecast(n, answer)
    \/ \E n \in At("invoke") : WorkerInvoke(n)
    \/ UpdateWeatherUi
    \/ \E city_id \in FavoriteClickIds : ~Aborted /\ ToggleFavorite(city_id)

\* One run of the application with clicks on cards and stars at any
\* moment.
SpecStars == InitHomePage /\ [][NextStars]_vars

(***************************************************************************)
(* migrate.py: the backfill of ru_name                                     *)
(***************************************************************************)

\* A defective query: the rows whose ru_name is the empty string.
GetCitiesWithEmptyRuNameEmptyString(tbl) ==
    {r.id : r \in {c \in tbl : c.ru_name = <<>> /\ c.country = RU}}

\* get_cities_with_empty_ru_name: SELECT id FROM cities WHERE ru_name IS
\* NULL AND country = 'RU'.  The ids, as a set: the statement has no ORDER
\* BY, the loop over them is modelled in any order.
GetCitiesWithEmptyRuName(tbl) ==
    {r.id : r \in {c \in tbl : c.ru_name = None /\ c.country = RU}}

\* What fetch_city_name returns: a name of the provider; None (a
\* RequestException was caught, or the answer has no "name"); "".
FetchedNames == ProviderNames \cup {None, <<>>}

\* The catalogues migrate.main is run over: nothing backfilled yet, and
\* the backfill done but for city 4.
MigrateCatalogues == {Seed, Backfill(Seed, Backfilled)}

\* main, the head of "while True": cities = get_cities_with_empty_ru_name(
\* cursor); "if not cities: break" and conn.close(), or into the for loop.
MigrateSelect ==
    /\ migrate.pc = "select"
    /\ \E found \in {GetCitiesWithEmptyRuName(cities)} :
           migrate' = [migrate EXCEPT !.pc = IF found = {} THEN "done" ELSE "fetch",
                                      !.cities = found]
    /\ UNCHANGED <<settingsVars, catalogVars, fetch, fetchVars>>

\* One round of the for loop: ru_name = fetch_city_name(city_id); if it is
\* truthy update_city_ru_name and commit, otherwise the failure is
\* printed; after the last id of the list, back to the head of the while.
MigrateFetch(city_id, ru_name) ==
    /\ migrate.pc = "fetch"
    /\ city_id \in migrate.cities
    /\ cities' = IF Truthy(ru_name) THEN UpdateCityRuName(cities, city_id, ru_name)
                 ELSE cities
    /\ migrate' = [pc |-> IF migrate.cities = {city_id} THEN "select" ELSE "fetch",
                   cities |-> migrate.cities \ {city_id},
                   failed |-> IF Truthy(ru_name) THEN migrate.failed
                              ELSE migrate.failed \cup {city_id}]
    /\ UNCHANGED <<settingsVars, ret, prev, fetch, fetchVars>>

\* migrate.main is started: sqlite3.connect, conn.cursor().
InitMigrate ==
    /\ InitSettings
    /\ cities \in MigrateCatalogues
    /\ ret = NoCall
    /\ prev = NoCall
    /\ fetch = [op |-> "none"]
    /\ migrate = [pc |-> "select", cities |-> {}, failed |-> {}]
    /\ api_key = None
    /\ stack = "none"
    /\ labels = <<>>
    /\ forecast_cards = <<>>
    /\ threads = <<>>
    /\ queue = <<>>
    /\ log = <<>>

NextMigrate ==
    \/ MigrateSelect
    \/ \E city_id \in {r.id : r \in Seed}, ru_name \in FetchedNames :
           MigrateFetch(city_id, ru_name)

\* The fetch of every city's name succeeds with a name that is not empty
\* whenever it is tried often enough.
FetchesSucceedInTheEnd ==
    \A city_id \in {r.id : r \in Seed} :
        SF_vars(\E ru_name \in ProviderNames : MigrateFetch(city_id, ru_name))

\* migrate.main, run to its end, under the assumption that the name fetch
\* of every city succeeds in the end.
SpecMigrate ==
    InitMigrate /\ [][NextMigrate]_vars /\ WF_vars(NextMigrate) /\ FetchesSucceedInTheEnd

(***************************************************************************)
(* Properties of the settings store (SpecSettings)                         *)
(***************************************************************************)

LastCall == hist[Len(hist)]

\* The last three calls were set_setting(name, v1), set_setting(name, v2)
\* and get_setting(name), for one name.
SetSetGet ==
    /\ Len(hist) = 3
    /\ hist[1].op = "set_setting"
    /\ hist[2].op = "set_setting"
    /\ hist[3].op = "get_setting"
    /\ hist[1].name = hist[2].name
    /\ hist[2].name = hist[3].name

\* C1: set_setting(name, v1), then set_setting(name, v2), then
\* get_setting(name) returns v2, whatever calls came before.
C1_SetSetGetReturnsSecond == SetSetGet => hist[3].result = hist[2].value

\* C1 happens: the two values differ and a set_setting call came before.
C1_Witness ==
    /\ SetSetGet
    /\ hist[1].value # hist[2].value
    /\ hist[3].result = hist[2].value
    /\ seq > 2

\* C2: the settings table holds at most one row per setting name: there is
\* one row for each name ever set, and none besides.
C2_OneRowPerName ==
    /\ \A name \in SettingNames : Cardinality(SettingRows(settings, name)) <= 1
    /\ Cardinality(settings) = Cardinality(everSet)

\* C2 happens: a name was set twice in a row, with two values, and more
\* set_setting calls were made than there are rows.
C2_Witness ==
    /\ Len(hist) >= 2
    /\ hist[Len(hist)].op = "set_setting"
    /\ hist[Len(hist) - 1].op = "set_setting"
    /\ hist[Len(hist)].name = hist[Len(hist) - 1].name
    /\ hist[Len(hist)].value # hist[Len(hist) - 1].value
    /\ Cardinality(SettingRows(settings, LastCall.name)) = 1
    /\ seq > Cardinality(settings)

\* C3: get_setting on a name that was never set returns None and leaves
\* the settings table as it was.
C3_GetUnsetIsNone ==
    [][ (/\ Len(hist') > 0
         /\ hist'[Len(hist')].op = "get_setting"
         /\ hist'[Len(hist')].name \notin everSet')
        => /\ hist'[Len(hist')].result = None
           /\ settings' = settings ]_vars

\* C3 happens: the last call is get_setting on a name never set, answered
\* None, while other names are set.
C3_Witness ==
    /\ Len(hist) > 0
    /\ LastCall.op = "get_setting"
    /\ LastCall.name \notin everSet
    /\ LastCall.result = None
    /\ settings # {}

(***************************************************************************)
(* Properties of the catalogue                                             *)
(***************************************************************************)

\* The ids of the rows a get_cities call returned.
ReturnedIds == {ret.value[i].id : i \in 1..Len(ret.value)}

CatalogIds == {r.id : r \in cities}

\* C4 (SpecSearch): for every name query and every country filter,
\* get_cities returns no row whose ru_name is null.
C4_NoNullName ==
    ret.op = "get_cities" =>
        \A i \in 1..Len(ret.value) : ret.value[i].ru_name # None

\* C4 happens: a call without a name query, on a catalogue with a row
\* whose ru_name is null, returns rows.
C4_Witness ==
    /\ ret.op = "get_cities"
    /\ ~Truthy(ret.ru_name)
    /\ ~Truthy(ret.country)
    /\ \E r \in cities : r.ru_name = None
    /\ Len(ret.value) > 0

\* The last two calls were update_city_favorite(c, b) and is_city_favorite(c).
UpdateThenIs ==
    /\ ret.op = "is_city_favorite"
    /\ prev.op = "update_city_favorite"
    /\ prev.city_id = ret.city_id

\* C5 (SpecCatalog): for a city c of the catalogue, update_city_favorite(c, b)
\* followed by is_city_favorite(c) returns b, for b true and for b false.
C5_UpdateThenIsFavorite ==
    UpdateThenIs /\ ret.city_id \in CatalogIds => ret.value = prev.is_favorite

\* C5 happens: the flag of a city of the catalogue was set and read back.
C5_Witness ==
    /\ UpdateThenIs
    /\ ret.city_id \in CatalogIds
    /\ prev.is_favorite
    /\ ret.value

\* C6 (SpecCatalog): is_city_favorite on an id that is not in the catalogue
\* returns false, also right after update_city_favorite(id, true).
C6_UnknownIsNotFavorite ==
    ret.op = "is_city_favorite" /\ ret.city_id \notin {r.id : r \in Seed}
        => ret.value = FALSE

\* C6 happens: update_city_favorite(id, true) on an unknown id, then
\* is_city_favorite(id).
C6_Witness ==
    /\ UpdateThenIs
    /\ ret.city_id \notin {r.id : r \in Seed}
    /\ prev.is_favorite
    /\ ret.value = FALSE

\* C7 (SpecCatalog): update_city_favorite(c, b), called directly or by
\* toggle_favorite, changes nothing but the favorite flag of the row with
\* id c: every other row and every other field is as before, no row is added
\* or deleted, and with no row c the catalogue is as it was.
C7_OnlyFavoriteOfThatRow ==
    ret.op \in {"update_city_favorite", "toggle_favorite"} =>
        /\ Cardinality(cities) = Cardinality(ret.before)
        /\ \A r \in ret.before :
               IF r.id = ret.city_id
               THEN \E f \in {0, 1} : [r EXCEPT !.favorite = f] \in cities
               ELSE r \in cities
        /\ ret.city_id \notin {r.id : r \in ret.before} => cities = ret.before

\* C7 happens: the call changed the flag of its row, in a catalogue where
\* another row is a favourite.
C7_Witness ==
    /\ ret.op = "update_city_favorite"
    /\ cities # ret.before
    /\ \E r \in cities : r.id # ret.city_id /\ r.favorite = 1

\* C8 (SpecCatalog): in the list get_cities returns every favourite row
\* comes before every other row; among rows of equal favorite status every
\* 'RU' row comes before every row of another country; and among those the
\* rows are in ascending order of country.
C8_Ordered ==
    ret.op = "get_cities" =>
        \A i \in 1..Len(ret.value), j \in 1..Len(ret.value) :
            i < j =>
                LET a == ret.value[i]
                    b == ret.value[j]
                IN  /\ a.favorite >= b.favorite
                    /\ a.favorite = b.favorite =>
                           /\ b.country = RU => a.country = RU
                           /\ (a.country = RU <=> b.country = RU)
                                  => ~StrLess(b.country, a.country)

\* C8 happens: a favourite 'FR' row, then a 'RU' row that is not a
\* favourite, then a 'DE' row.
C8_Witness ==
    /\ ret.op = "get_cities"
    /\ Len(ret.value) >= 3
    /\ ret.value[1].favorite = 1 /\ ret.value[1].country = FR
    /\ ret.value[2].favorite = 0 /\ ret.value[2].country = RU
    /\ \E i \in 3..Len(ret.value) :
           ret.value[i].favorite = 0 /\ ret.value[i].country = DE

\* C9 (SpecSearch): with a country given every returned row has that
\* country, and with a name query given as well the rows returned are those
\* that pass both filters, each once.
C9_CountryAndName ==
    ret.op = "get_cities" /\ Truthy(ret.country) =>
        /\ \A i \in 1..Len(ret.value) : ret.value[i].country = ret.country
        /\ Truthy(ret.ru_name) =>
               /\ ReturnedIds =
                      {r.id : r \in {c \in cities :
                                        /\ c.ru_name # None
                                        /\ c.country = ret.country
                                        /\ NameFilter(c, ret.ru_name)}}
               /\ Len(ret.value) = Cardinality(ReturnedIds)

\* C9 happens: a row is returned, a row of the country fails the name
\* filter, and a row that passes the name filter is of another country.
C9_Witness ==
    /\ ret.op = "get_cities"
    /\ Truthy(ret.country)
    /\ Truthy(ret.ru_name)
    /\ Len(ret.value) > 0
    /\ \E r \in cities : /\ r.ru_name # None
                         /\ r.country = ret.country
                         /\ ~NameFilter(r, ret.ru_name)
    /\ \E r \in cities : /\ r.ru_name # None
                         /\ r.country # ret.country
                         /\ NameFilter(r, ret.ru_name)

\* sub occurs in s as a run of consecutive characters.
Contains(s, sub) ==
    \E k \in 0..(Len(s) - Len(sub)) :
        \A i \in 1..Len(sub) : s[k + i] = sub[i]

\* sub occurs in s when the case of letters is ignored.
ContainsIgnoringCase(s, sub) ==
    Contains(ToAsciiEquivalent(s), ToAsciiEquivalent(sub))

\* C10 (SpecSearch): with a name query q given, a row with a non-null
\* ru_name is returned if and only if its ru_name contains q as a substring
\* ignoring case, or contains the upper-cased q as a substring.
C10_SubstringMatch ==
    ret.op = "get_cities" /\ Truthy(ret.ru_name) /\ ~Truthy(ret.country) =>
        \A r \in cities :
            r.ru_name # None =>
                (r.id \in ReturnedIds <=>
                     \/ ContainsIgnoringCase(r.ru_name, ret.ru_name)
                     \/ Contains(r.ru_name, ToAsciiEquivalent(ret.ru_name)))

\* The query holds one of LIKE's wildcards.
HasWildcard(q) == \E i \in 1..Len(q) : q[i] \in {37, 95}

\* For the queries without % and _ the rows returned are those whose
\* ru_name contains the query.
SubstringMatchWithoutWildcard ==
    ret.op = "get_cities" /\ Truthy(ret.ru_name) /\ ~Truthy(ret.country)
        /\ ~HasWildcard(ret.ru_name) =>
        \A r \in cities :
            r.ru_name # None =>
                (r.id \in ReturnedIds <=>
                     \/ ContainsIgnoringCase(r.ru_name, ret.ru_name)
                     \/ Contains(r.ru_name, ToAsciiEquivalent(ret.ru_name)))

(***************************************************************************)
(* Properties of the weather client (SpecClient)                           *)
(***************************************************************************)

ForecastCalled == fetch.op = "fetch_forecast_by_city_id"
WeatherCalled == fetch.op = "fetch_weather_by_city_id"
Returned == fetch.result.status = "return"
UpstreamError ==
    /\ fetch.result.status = "raise"
    /\ fetch.result.type = "RuntimeError"
    /\ fetch.result.clause = "RequestException"
DataShapeError ==
    /\ fetch.result.status = "raise"
    /\ fetch.result.type = "RuntimeError"
    /\ fetch.result.clause = "KeyError"

\* The number a text of decimal digits writes.
RECURSIVE Number(_)
Number(digits) ==
    IF digits = <<>> THEN 0
    ELSE 10 * Number(SubSeq(digits, 1, Len(digits) - 1)) + (digits[Len(digits)] - 48)

\* The date a text "YYYY-MM-DD" writes.
DateOfText(s) ==
    [year |-> Number(SubSeq(s, 1, 4)), month |-> Number(SubSeq(s, 6, 7)),
     day |-> Number(SubSeq(s, 9, 10))]

\* The number of the day in the proleptic Gregorian calendar.
DayNumber(date) ==
    LET y == date.year - 1
        before == <<0, 31, 59, 90, 120, 151, 181, 212, 243, 273, 304, 334>>
    IN  365 * y + (y \div 4) - (y \div 100) + (y \div 400) + before[date.month]
            + (IF date.month > 2 /\ IsLeap(date.year) THEN 1 ELSE 0) + date.day

\* C11: every successful fetch_forecast_by_city_id returns exactly 3
\* entries, and their dates are, in this order, the current UTC date plus
\* 1, plus 2 and plus 3 days.
C11_ThreeNextDays ==
    (ForecastCalled /\ Returned) =>
        /\ Len(fetch.result.value) = 3
        /\ \A i \in 1..3 :
               LET date == fetch.result.value[i].date
               IN  /\ Len(date) = 10
                   /\ date[5] = 45
                   /\ date[8] = 45
                   /\ DayNumber(DateOfText(date)) = DayNumber(fetch.current_date) + i

\* A forecast returned on 2023-12-30: its dates cross the end of the year.
C11_Witness ==
    /\ ForecastCalled
    /\ Returned
    /\ fetch.current_date.month = 12
    /\ Len(fetch.reply.json.list) > 3

\* The samples of list whose date component is date.
SamplesOf(list, date) ==
    {j \in 1..Len(list) : SubSeq(list[j].dt_txt, 1, 10) = date}

\* C12: the entry's temp_min is the minimum of temp_min over the returned
\* samples whose date component equals the entry's date, and its temp_max
\* the maximum of temp_max over the same samples; samples of other dates
\* do not influence the entry.
C12_MinMaxOfSameDate ==
    (ForecastCalled /\ Returned) =>
        \A i \in 1..Len(fetch.result.value) :
            LET list == fetch.reply.json.list
                entry == fetch.result.value[i]
                same == SamplesOf(list, entry.date)
            IN  /\ \E j \in same : list[j].main.temp_min = entry.temp_min
                /\ \A j \in same : entry.temp_min <= list[j].main.temp_min
                /\ \E j \in same : list[j].main.temp_max = entry.temp_max
                /\ \A j \in same : entry.temp_max >= list[j].main.temp_max

\* A forecast returned from a list with two samples of one target date,
\* and with a sample of another date that is colder than an entry.
C12_Witness ==
    /\ ForecastCalled
    /\ Returned
    /\ LET list == fetch.reply.json.list
           value == fetch.result.value
       IN  /\ \E i \in 1..Len(value) :
                  Cardinality(SamplesOf(list, value[i].date)) >= 2
           /\ \E i \in 1..Len(value) :
                  \E j \in (1..Len(list)) \ SamplesOf(list, value[i].date) :
                      list[j].main.temp_min < value[i].temp_min

\* The provider answered 200 with a list whose samples are complete, and
\* the CDN served every icon.
ForecastAnswered ==
    /\ ForecastCalled
    /\ fetch.reply.kind = "response"
    /\ fetch.reply.status_code = 200
    /\ "list" \in DOMAIN fetch.reply.json
    /\ \A j \in 1..Len(fetch.reply.json.list) :
           "main" \in DOMAIN fetch.reply.json.list[j]
    /\ \A i \in 1..3 : fetch.icons[i] = IconOk

\* The samples of list of that date timestamped 12:00:00.
NoonSamplesOf(list, date) ==
    {j \in 1..Len(list) : list[j].dt_txt = date \o <<32>> \o Noon}

\* C13: the entry's description and icon are those of the sample of its
\* date timestamped 12:00:00; when the list has samples for the date but
\* none at 12:00:00, the fetch still succeeds and that entry's description
\* and icon are empty.
C13_NoonSampleOrEmpty ==
    (/\ ForecastAnswered
     /\ \A i \in 1..3 :
            SamplesOf(fetch.reply.json.list, TargetDates(fetch.current_date)[i]) # {})
    =>
        /\ Returned
        /\ \A i \in 1..3 :
               LET list == fetch.reply.json.list
                   entry == fetch.result.value[i]
                   noons == NoonSamplesOf(list, TargetDates(fetch.current_date)[i])
               IN  IF noons # {}
                   THEN \E j \in noons :
                            /\ entry.description = list[j].weather[1].description
                            /\ entry.pixmap =
                                   Pixmap(IconUrl(list[j].weather[1].icon), IconOk)
                   ELSE /\ entry.description = <<>>
                        /\ entry.pixmap = Pixmap(<<>>, IconOk)

\* C14: when the list has no sample at all for one of the three target
\* dates, the fetch still returns 3 entries and the entry of the missing
\* date carries temp_min = +infinity and temp_max = -infinity.
C14_MissingDateIsInfinite ==
    (/\ ForecastAnswered
     /\ \A i \in 1..3 :
            LET list == fetch.reply.json.list
                date == TargetDates(fetch.current_date)[i]
            IN  SamplesOf(list, date) = {} \/ NoonSamplesOf(list, date) # {})
    =>
        /\ Returned
        /\ Len(fetch.result.value) = 3
        /\ \A i \in 1..3 :
               SamplesOf(fetch.reply.json.list, TargetDates(fetch.current_date)[i]) = {}
                   => /\ fetch.result.value[i].temp_min = Inf
                      /\ fetch.result.value[i].temp_max = NegInf

\* C15, as stated: when the provider answers the weather or the forecast
\* request with a status that is not 2xx, the fetch fails with an upstream
\* error and returns nothing.
C15_NonSuccessStatusFails ==
    (/\ fetch.op # "none"
     /\ fetch.reply.kind = "response"
     /\ fetch.reply.status_code \notin 200..299)
    => UpstreamError

\* C15, amended: when the provider answers the weather or the forecast
\* request with a 4xx or 5xx status, the fetch fails with an upstream
\* error, returns nothing and asks for no icon.
C15_ErrorStatusFails ==
    (/\ fetch.op # "none"
     /\ fetch.reply.kind = "response"
     /\ fetch.reply.status_code \in 400..599)
    =>
        /\ UpstreamError
        /\ "value" \notin DOMAIN fetch.result
        /\ Len(fetch.result.requests) = 1

\* A forecast request answered 404.
C15_Witness ==
    /\ ForecastCalled
    /\ fetch.reply.kind = "response"
    /\ fetch.reply.status_code = 404
    /\ UpstreamError

\* The provider answered the weather request 200.
WeatherAnswered ==
    /\ WeatherCalled
    /\ fetch.reply.kind = "response"
    /\ fetch.reply.status_code = 200

\* The objects and times of a weather answer that the code subscripts.
Missing(data) ==
    ({"sys", "main", "wind", "weather", "clouds"} \ DOMAIN data)
        \cup (IF "sys" \in DOMAIN data
              THEN {"sunrise", "sunset"} \ DOMAIN data.sys
              ELSE {})

\* The city name, the temperature or the description is not in the answer.
RequiredFieldMissing(data) ==
    \/ "name" \notin DOMAIN data
    \/ "main" \in DOMAIN data /\ "temp" \notin DOMAIN data.main
    \/ /\ "weather" \in DOMAIN data
       /\ data.weather # <<>>
       /\ "description" \notin DOMAIN data.weather[1]

\* C16, as stated: when a 2xx weather answer lacks the city name, the
\* temperature or the description, the fetch fails with a data-shape error
\* and never returns a snapshot with a default in its place.
C16_MissingRequiredFieldFails ==
    (WeatherAnswered /\ RequiredFieldMissing(fetch.reply.json)) => DataShapeError

\* C16, amended: when a 2xx weather answer lacks the city name, the
\* temperature or the description and nothing the code subscripts, the
\* fetch returns a snapshot with "Неизвестный город", None or "Описание не
\* найдено" in its place; the data-shape error names a missing sys, main,
\* wind, weather or clouds object or a missing sys.sunrise or sys.sunset,
\* and nothing else.
C16_RequiredFieldDefaulted ==
    WeatherAnswered =>
        LET data == fetch.reply.json
        IN  /\ (/\ Missing(data) = {}
                /\ data.weather # <<>>
                /\ fetch.icon_reply = IconOk)
               => /\ Returned
                  /\ fetch.result.value.city =
                         (IF "name" \in DOMAIN data THEN data.name ELSE UnknownCity)
                  /\ fetch.result.value.temperature =
                         (IF "temp" \in DOMAIN data.main THEN data.main.temp ELSE None)
                  /\ fetch.result.value.description =
                         (IF "description" \in DOMAIN data.weather[1]
                          THEN data.weather[1].description
                          ELSE DescriptionNotFound)
            /\ DataShapeError => fetch.result.key \in Missing(data)

\* A snapshot returned for an answer without the city name.
C16_Witness ==
    /\ WeatherAnswered
    /\ "name" \notin DOMAIN fetch.reply.json
    /\ Returned
    /\ fetch.result.value.city = UnknownCity

\* The CDN did not serve the icon.
IconFailed(reply) ==
    reply.kind = "exception" \/ reply.status_code \notin 200..299

\* The icon request raised: a transport error, or raise_for_status() for
\* a 4xx or 5xx answer.
IconErrored(reply) ==
    reply.kind = "exception" \/ reply.status_code \in 400..599

\* C17: in both fetch operations, a failure of any icon request makes the
\* whole operation fail with an upstream error: no snapshot without its
\* icon, and no entries at all if the icon of one of the entries fails.
C17_IconFailureFailsAll ==
    /\ (/\ WeatherCalled
        /\ Len(fetch.result.requests) = 2
        /\ IconFailed(fetch.icon_reply))
       => (UpstreamError /\ "value" \notin DOMAIN fetch.result)
    /\ (/\ ForecastCalled
        /\ \E n \in 1..3 :
               Len(fetch.result.requests) > n /\ IconFailed(fetch.icons[n]))
       => (UpstreamError /\ "value" \notin DOMAIN fetch.result)

\* C17, amended: in both fetch operations, a transport error or a 4xx or
\* 5xx answer to any icon request makes the whole operation fail with an
\* upstream error: no snapshot is returned then, and no entries at all if
\* the icon request of one of the entries fails in this way.
C17_IconErrorFailsAll ==
    /\ (/\ WeatherCalled
        /\ Len(fetch.result.requests) = 2
        /\ IconErrored(fetch.icon_reply))
       => (UpstreamError /\ "value" \notin DOMAIN fetch.result)
    /\ (/\ ForecastCalled
        /\ \E n \in 1..3 :
               Len(fetch.result.requests) > n /\ IconErrored(fetch.icons[n]))
       => (UpstreamError /\ "value" \notin DOMAIN fetch.result)

\* A forecast whose first icon was served and whose second was refused
\* with a 404.
C17_Witness ==
    /\ ForecastCalled
    /\ Len(fetch.result.requests) = 3
    /\ fetch.icons[1] = IconOk
    /\ IconErrored(fetch.icons[2])
    /\ UpstreamError
    /\ "value" \notin DOMAIN fetch.result

\* C18: when the configured API key is missing or empty, a fetch is
\* rejected with an error before any HTTP request is sent; no network call
\* is made with an absent or empty key.
C18_NoRequestWithoutKey ==
    (fetch.op # "none" /\ (api_key = None \/ api_key = <<>>)) =>
        /\ fetch.result.status = "raise"
        /\ fetch.result.requests = <<>>

(***************************************************************************)
(* Properties of the home page (SpecFetch)                                 *)
(***************************************************************************)

\* The places of event in the steps logged for a request.
Places(steps, event) == {i \in 1..Len(steps) : steps[i] = event}

\* The places at which a request was put on the wire.
RequestPlaces(steps) ==
    Places(steps, "weather_request") \cup Places(steps, "forecast_request")
        \cup Places(steps, "icon_request")

\* C19: every call of update_weather shows the loading screen on the
\* caller's thread before the worker thread is started and before any
\* network call of that request is issued.
C19_LoadingBeforeThread ==
    /\ Len(log) = Len(threads)
    /\ \A n \in 1..Len(log) :
           \E i \in Places(log[n], "loading_widget") :
               \E j \in Places(log[n], "thread_start") :
                   /\ i < j
                   /\ \A k \in RequestPlaces(log[n]) : j < k

\* The request of a click, whose worker has put requests on the wire.
C19_Witness ==
    /\ Len(log) >= 2
    /\ RequestPlaces(log[2]) # {}

\* C20: within one request the current-weather fetch is issued and
\* completed before the forecast fetch is issued, the result is published
\* to the UI only after both fetches have succeeded, and the forecast
\* fetch is never issued when the current-weather fetch failed.
C20_WeatherThenForecastThenPublish ==
    \A n \in 1..Len(log) :
        /\ \A j \in Places(log[n], "forecast_request") :
               /\ \E i \in Places(log[n], "weather_returned") : i < j
               /\ \E i \in Places(log[n], "weather_request") : i < j
        /\ \A j \in Places(log[n], "invoke") \cup Places(log[n], "update_weather_ui") :
               /\ \E i \in Places(log[n], "weather_returned") : i < j
               /\ \E i \in Places(log[n], "forecast_returned") : i < j
        /\ Places(log[n], "weather_raised") # {} =>
               /\ Places(log[n], "forecast_request") = {}
               /\ Places(log[n], "invoke") = {}
        /\ Places(log[n], "forecast_raised") # {} => Places(log[n], "invoke") = {}

\* One request was published, and the weather fetch of another failed.
C20_Witness ==
    /\ \E n \in 1..Len(log) : Places(log[n], "update_weather_ui") # {}
    /\ \E n \in 1..Len(log) : Places(log[n], "weather_raised") # {}

(***************************************************************************)
(* Properties of the home page: failures, ordering, startup (SpecFetch)    *)
(***************************************************************************)

\* A fetch of request n raised.
FetchFailed(n) ==
    Places(log[n], "weather_raised") \cup Places(log[n], "forecast_raised") # {}

\* update_weather_ui was invoked for request n: queued, or run.
Handed(n) ==
    \/ Places(log[n], "invoke") \cup Places(log[n], "update_weather_ui") # {}
    \/ \E i \in 1..Len(queue) : queue[i].request = n

\* update_weather_ui ran to its end for request n: its data is shown and
\* the stack is on weather_widget.
Ready(n) == Places(log[n], "weather_widget") # {}

\* C21: a request one of whose fetches failed is never handed to
\* update_weather_ui, so its data is never shown as ready.
C21_NoReadyAfterFailure ==
    \A n \in 1..Len(threads) :
        FetchFailed(n) =>
            /\ ~Handed(n)
            /\ ~Ready(n)
            /\ threads[n].pc = "died"

\* A request whose weather fetch returned and whose forecast fetch raised,
\* beside a request that was shown.
C21_Witness ==
    \E n, m \in 1..Len(threads) :
        /\ Places(log[n], "weather_returned") # {}
        /\ Places(log[n], "forecast_raised") # {}
        /\ Ready(m)

\* Something was done on account of request n after its fetch raised.
Notified(n) ==
    \E i \in Places(log[n], "weather_raised") \cup Places(log[n], "forecast_raised") :
        Len(log[n]) > i

\* C22: once nothing is left to run, every request one of whose fetches
\* failed has had its failure brought to the user interface.
C22_FailureReachesUi ==
    Quiescent => \A n \in 1..Len(threads) : FetchFailed(n) => Notified(n)

\* The cards are filled with forecast entries, none shows "Loading...".
CardsLoaded == \A i \in 1..3 : forecast_cards[i] # LoadingCard

\* C23: once nothing is left to run, when the last request failed and an
\* earlier request had been shown, the weather widget with the filled
\* cards is displayed; when the only request failed, the loading widget
\* is.
C23_PriorDataStillDisplayed ==
    (Quiescent /\ ~Aborted /\ FetchFailed(Len(threads))) =>
        IF \E m \in 1..Len(threads) : Ready(m)
        THEN stack = "weather_widget" /\ CardsLoaded
        ELSE stack = "loading_widget"

\* Both fetches of request n returned.
BothReturned(n) ==
    /\ Places(log[n], "weather_returned") # {}
    /\ Places(log[n], "forecast_returned") # {}

\* Nothing is left to run for request n.
Settled(n) ==
    /\ threads[n].pc \in {"finished", "died"}
    /\ \A i \in 1..Len(queue) : queue[i].request # n

\* C24: a request both of whose fetches returned ends shown: once nothing
\* is left to run for it, update_weather_ui has run to its end with a
\* snapshot of a non-empty city and three forecast entries.
C24_SuccessEndsReady ==
    \A n \in 1..Len(threads) :
        (BothReturned(n) /\ Settled(n)) =>
            /\ Ready(n)
            /\ threads[n].weather_data.city # <<>>
            /\ Len(threads[n].forecast_data) = 3

\* What update_weather_ui leaves on the page when it runs to its end with
\* the data of request n.
ShownOf(n) ==
    UpdateWeatherUiBody(InitialLabels, [i \in 1..3 |-> LoadingCard], "loading_widget",
                        threads[n].weather_data, threads[n].forecast_data)

\* The request whose invocation of update_weather_ui was posted last.
LastHanded == CHOOSE n \in 1..Len(threads) : threads[n].handed = HandedSoFar(threads)

\* C25: a later update_weather ends no earlier request (a thread dies of
\* its own failed fetch only, every other one posts its result), and once
\* nothing is left to run the labels are those of the request whose result
\* was posted last, whichever was made first; with no request failed the
\* cards are too, and the weather widget is shown.
C25_LastHandedWins ==
    /\ \A n \in 1..Len(threads) :
           /\ threads[n].pc = "died" => FetchFailed(n)
           /\ (BothReturned(n) /\ threads[n].pc # "invoke") => Handed(n)
    /\ (Quiescent /\ HandedSoFar(threads) > 0 /\ Ready(LastHanded)) =>
           /\ labels = ShownOf(LastHanded).labels
           /\ (\A n \in 1..Len(threads) : threads[n].pc = "finished") =>
                  /\ forecast_cards = ShownOf(LastHanded).forecast_cards
                  /\ stack = "weather_widget"

\* Two requests for different cities were both shown, the older one's
\* result was posted last, and its city is the one displayed.
C25_Witness ==
    /\ Len(threads) = 2
    /\ Quiescent
    /\ Ready(1) /\ Ready(2)
    /\ threads[1].handed = 2
    /\ threads[1].weather_data.city # threads[2].weather_data.city
    /\ labels = ShownOf(1).labels
    /\ labels # ShownOf(2).labels

\* C29: whenever the weather widget is shown by the running application,
\* the labels and the three cards are those of one request that was
\* shown.
C29_SnapshotAndForecastOfOneRequest ==
    (~Aborted /\ stack = "weather_widget") =>
        \E n \in 1..Len(threads) :
            /\ Ready(n)
            /\ labels = ShownOf(n).labels
            /\ forecast_cards = ShownOf(n).forecast_cards

\* Two requests were both shown, the older one last, and the labels and
\* the cards are all the older one's, none the newer one's.
C29_Witness ==
    /\ ~Aborted
    /\ stack = "weather_widget"
    /\ Len(threads) = 2
    /\ queue = <<>>
    /\ threads[1].pc = "finished" /\ threads[2].pc = "finished"
    /\ Ready(1) /\ Ready(2)
    /\ threads[1].handed = 2
    /\ labels = ShownOf(1).labels
    /\ forecast_cards = ShownOf(1).forecast_cards
    /\ forecast_cards # ShownOf(2).forecast_cards

(***************************************************************************)
(* Properties of the home page across runs (SpecRuns, SpecStars)           *)
(***************************************************************************)

\* A step of on_card_click: it alone starts one more thread.
ClickStep == Len(threads') > Len(threads)

\* A step that starts the application again.
RestartStep == log' = <<UpdateWeatherSteps>> /\ log' # log

\* The city the first request of the run is for, as sent.
StartupCity == Encoded(threads[1].city_id)

\* on_card_click leaves the clicked city under the settings key name,
\* nothing else changes what is stored there, and a start requests what is
\* stored there.
LastCityKept(name) ==
    /\ ClickStep =>
           GetSettingValue(settings', name) = Encoded(threads'[Len(threads')].city_id)
    /\ ~ClickStep => GetSettingValue(settings', name) = GetSettingValue(settings, name)
    /\ RestartStep => StartupCity' = GetSettingValue(settings, name)

\* C26 as stated: the city requested at startup is the value stored under
\* the settings key LAST_SELECTED_CITY_ID, which is the city last selected
\* through on_card_click.
C26_StartupCityUnderLastSelectedCityId ==
    /\ StartupCity = GetSettingValue(settings, "LAST_SELECTED_CITY_ID")
    /\ [][LastCityKept("LAST_SELECTED_CITY_ID")]_vars

\* C26, amended: the city requested at startup is the value stored under
\* the settings key LAST_SITY_ID, which is the city last selected through
\* on_card_click in any earlier run.
C26_StartupCityIsLastClicked ==
    /\ StartupCity = GetSettingValue(settings, "LAST_SITY_ID")
    /\ [][LastCityKept("LAST_SITY_ID")]_vars

\* The run was started for city 2, which only a click of an earlier run
\* can have stored, and its first request went out for that city.
C26_Witness ==
    /\ threads[1].city_id = <<50>>
    /\ threads[1].sent # <<>>
    /\ threads[1].sent[1].request.params.id = <<50>>

\* C27: the closure of every request runs on a thread of its own, not on
\* the UI thread: every network request is sent by such a thread, and no
\* such thread makes a call on the storage connection.
C27_WorkersOnlyNetwork ==
    \A n \in 1..Len(threads) :
        /\ threads[n].runner # "MainThread"
        /\ threads[n].storage_calls = <<>>
        /\ \A i \in 1..Len(threads[n].sent) : threads[n].sent[i].thread # "MainThread"

\* A star was clicked, the click on a card has stored its city, and the
\* thread of that click has sent requests while the request of the start
\* is still in flight.
C27_Witness ==
    /\ \E r \in cities : r.favorite = 1
    /\ GetSettingValue(settings, "LAST_SITY_ID") = <<50>>
    /\ Len(threads) >= 2
    /\ threads[2].sent # <<>>
    /\ threads[1].pc \in {"fetch_weather", "fetch_forecast"}

\* The appid a weather or forecast request went out with (None: without).
AppId(request) ==
    IF "appid" \in DOMAIN request.params THEN request.params.appid ELSE None

\* C28: every weather and forecast request goes out with the key the
\* store held when the WeatherAPI of the run was constructed, whatever was
\* saved since.
C28_KeyFixedAtConstruction ==
    \A n \in 1..Len(threads) :
        \A i \in 1..Len(threads[n].sent) :
            RequestEvent(threads[n].sent[i].request) # "icon_request" =>
                AppId(threads[n].sent[i].request) = api_key

\* A request went out with the key "k1" of the start while the store
\* already held the saved key "k2".
C28_Witness ==
    \E n \in 1..Len(threads) :
        \E i \in 1..Len(threads[n].sent) :
            /\ RequestEvent(threads[n].sent[i].request) # "icon_request"
            /\ AppId(threads[n].sent[i].request) = <<107, 49>>
            /\ threads[n].sent[i].stored = <<107, 50>>

(***************************************************************************)
(* Properties of the backfill (SpecMigrate)                                *)
(***************************************************************************)

\* No city of country 'RU' has a NULL ru_name.
NoRuCityWithoutRuName == \A r \in cities : r.country = RU => r.ru_name # None

\* C30: if the name fetch of every city succeeds in the end, migrate.main
\* ends, and whenever it has ended no city of country 'RU' has a NULL
\* ru_name.
C30_BackfillEndsComplete ==
    /\ [](migrate.pc = "done" => NoRuCityWithoutRuName)
    /\ <>(migrate.pc = "done")

\* migrate.main has ended after a fetch had failed, both cities of country
\* 'RU' have their upper-cased names, and a city of another country still
\* has none.
C30_Witness ==
    /\ migrate.pc = "done"
    /\ migrate.failed # {}
    /\ \E r \in cities : r.id = 1 /\ r.ru_name = <<1052>>
    /\ \E r \in cities : r.id = 4 /\ r.ru_name = <<65, 1052>>
    /\ \E r \in cities : r.country # RU /\ r.ru_name = None

====
